---- MODULE Spec2Model ----
(***************************************************************************)
(* A model of keploy/jsondiff (src/jsondiff.go): the diff-and-render       *)
(* pipeline SprintJSONDiff, the header comparison SprintDiffHeader, the    *)
(* ANSI-aware wrapping breakLines / breakWithColor and the block           *)
(* truncation truncateToMatchWithEllipsis.                                 *)
(*                                                                         *)
(* Text is a sequence of characters; a character is a one-character        *)
(* string, except ESC, which stands for the byte 0x1b.                     *)
(***************************************************************************)
EXTENDS Integers, Sequences, FiniteSets, TLC

VARIABLES
  \* a call of truncateToMatchWithEllipsis: its arguments and results
  tpc, expectedText, actualText, truncatedExpected, truncatedActual,
  \* a call of breakLines or breakWithColor: the function, its arguments, its result
  wpc, wfn, wInput, wColor, wRanges, wOutput,
  \* a call of SprintDiffHeader: its two maps and its two results
  hpc, hExpect, hActual, hExpectAll, hActualAll,
  \* a call of compareAndColorizeMaps or compareAndColorizeSlices: the function,
  \* its two arguments, its two results
  cpc, cfn, cA, cB, cExpected, cActual,
  \* a call of SprintJSONDiff: its three arguments, the diff string of
  \* calculateJSONDiffs, the two results of checkKeyInMaps, the calls of
  \* compareAndColorizeMaps and compareAndColorizeSlices made, its three results
  jpc, jJson1, jJson2, jNoise, jDiffString, jContext, jCompared, jErr, jExpect, jActual,
  \* a call of wrapTextWithAnsi: its argument and its result
  apc, aInput, aOutput,
  \* a call of diffArrayRange: its two arguments and its three results, and the
  \* two texts breakSliceWithColor makes of the arguments with these results;
  \* the ranges diffIndexRange returns for the same two arguments
  dpc, dS1, dS2, dIndices1, dIndices2, dDiff, dColoured1, dColoured2, dRanges

varsTrunc == <<tpc, expectedText, actualText, truncatedExpected, truncatedActual>>

varsWrap == <<wpc, wfn, wInput, wColor, wRanges, wOutput>>

varsHeader == <<hpc, hExpect, hActual, hExpectAll, hActualAll>>

varsCompare == <<cpc, cfn, cA, cB, cExpected, cActual>>

varsJSON ==
  <<jpc, jJson1, jJson2, jNoise, jDiffString, jContext, jCompared, jErr, jExpect, jActual>>

varsAnsi == <<apc, aInput, aOutput>>

varsDiff ==
  <<dpc, dS1, dS2, dIndices1, dIndices2, dDiff, dColoured1, dColoured2, dRanges>>

vars == <<varsTrunc, varsWrap, varsHeader, varsCompare, varsJSON, varsAnsi, varsDiff>>

\* what a call of one function leaves alone: the state of the other calls
othersTrunc == <<varsWrap, varsHeader, varsCompare, varsJSON, varsAnsi, varsDiff>>
othersWrap == <<varsTrunc, varsHeader, varsCompare, varsJSON, varsAnsi, varsDiff>>
othersHeader == <<varsTrunc, varsWrap, varsCompare, varsJSON, varsAnsi, varsDiff>>
othersCompare == <<varsTrunc, varsWrap, varsHeader, varsJSON, varsAnsi, varsDiff>>
othersJSON == <<varsTrunc, varsWrap, varsHeader, varsCompare, varsAnsi, varsDiff>>
othersAnsi == <<varsTrunc, varsWrap, varsHeader, varsCompare, varsJSON, varsDiff>>
othersDiff == <<varsTrunc, varsWrap, varsHeader, varsCompare, varsJSON, varsAnsi>>

-----------------------------------------------------------------------------
(* Characters and the escape codes of fatih/color *)

NL == "\n"
TAB == "\t"
ESC == "ESC"
SP == " "
QUOTE == "\""
BS == "\\"

Digits == <<"0", "1", "2", "3", "4", "5", "6", "7", "8", "9">>

ansiReset  == <<ESC, "[", "0", "m">>
ansiRed    == <<ESC, "[", "3", "1", "m">>
ansiGreen  == <<ESC, "[", "3", "2", "m">>
ansiYellow == <<ESC, "[", "3", "3", "m">>
ansiHiRed   == <<ESC, "[", "9", "1", "m">>
ansiHiGreen == <<ESC, "[", "9", "2", "m">>

-----------------------------------------------------------------------------
(* Go's strings package, on sequences of characters *)

RECURSIVE FoldRange(_, _, _, _, _)
\* a for-range loop over s[lo..hi] with loop state st; the halves are evaluated
\* one after the other, so the evaluation depth is logarithmic in the length
FoldRange(Op(_, _), st, s, lo, hi) ==
  IF lo > hi THEN st
  ELSE IF lo = hi THEN Op(st, s[lo])
  ELSE LET mid == (lo + hi) \div 2
           left == FoldRange(Op, st, s, lo, mid)
       IN IF left = left THEN FoldRange(Op, left, s, mid + 1, hi) ELSE st

\* for _, x := range s { st = Op(st, x) }
FoldLeft(Op(_, _), st, s) == FoldRange(Op, st, s, 1, Len(s))

\* strings.Split(s, sep) for a one-character separator
SplitEnd(r) == Append(r.done, r.cur)

Split(s, sep) ==
  LET step(st, c) == IF c = sep THEN [done |-> Append(st.done, st.cur), cur |-> <<>>]
                     ELSE [done |-> st.done, cur |-> Append(st.cur, c)]
  IN SplitEnd(FoldLeft(step, [done |-> <<>>, cur |-> <<>>], s))

\* strings.Join(elems, sep)
Join(elems, sep) ==
  LET step(st, e) == IF st.first THEN [first |-> FALSE, text |-> e]
                     ELSE [first |-> FALSE, text |-> st.text \o sep \o e]
  IN FoldLeft(step, [first |-> TRUE, text |-> <<>>], elems).text

\* strings.HasPrefix(SubSeq(s, i, Len(s)), sub): sub occurs in s at position i
OccursAt(s, sub, i) ==
  /\ i >= 1
  /\ i + Len(sub) - 1 <= Len(s)
  /\ \A j \in 1..Len(sub) : s[i + j - 1] = sub[j]

\* strings.Contains(s, sub)
Contains(s, sub) == \E i \in 1..(Len(s) + 1) : OccursAt(s, sub, i)

\* the number of places at which sub occurs in text
Occurrences(text, sub) == Cardinality({i \in 1..Len(text) : OccursAt(text, sub, i)})

-----------------------------------------------------------------------------
(* breakWithColor and breakLines *)

MAX_LINE_LENGTH == 50

\* a nil *color.Attribute
NilColor == <<>>

\* color.New(c).SprintFunc() applied to one string: the colour code, the
\* string, the reset code
Sprint(c, str) == c \o str \o ansiReset

\* the bytes below ' ' that occur in the modelled texts
isControlCharacter(char) == char \in {NL, TAB, ESC}

\* breakLines that counts the characters of an escape sequence as visible ones
breakLines_countsEscapes(input) ==
  LET step(st, char) ==
        IF st.lineLength >= MAX_LINE_LENGTH
          THEN [output |-> st.output \o st.currentLine \o <<NL>>,
                currentLine |-> IF char = NL THEN <<>> ELSE <<char>>,
                lineLength |-> IF char = NL THEN 0 ELSE 1]
        ELSE IF char = NL
          THEN [output |-> st.output \o st.currentLine \o <<NL>>,
                currentLine |-> <<>>, lineLength |-> 0]
        ELSE [output |-> st.output, currentLine |-> Append(st.currentLine, char),
              lineLength |-> st.lineLength + 1]
      r == FoldLeft(step, [output |-> <<>>, currentLine |-> <<>>, lineLength |-> 0], input)
  IN r.output \o r.currentLine

\* one iteration of the loop of breakLines
breakLinesStep(st, char) ==
  IF st.inANSISequence \/ char = ESC THEN
    IF char = "m"
      THEN [st EXCEPT !.inANSISequence = FALSE,
                      !.currentLine = @ \o st.ansiSequenceBuilder \o <<char>>,
                      !.ansiSequenceBuilder = <<>>]
      ELSE [st EXCEPT !.inANSISequence = TRUE,
                      !.ansiSequenceBuilder = Append(@, char)]
  ELSE IF isControlCharacter(char) /\ char # NL
    THEN [st EXCEPT !.currentLine = Append(@, char)]
  ELSE IF st.lineLength >= MAX_LINE_LENGTH
    THEN [st EXCEPT !.output = @ \o st.currentLine \o <<NL>>,
                    !.currentLine = <<>>,
                    !.lineLength = 0]
  ELSE IF char = NL
    THEN [st EXCEPT !.output = @ \o st.currentLine \o <<char>>,
                    !.currentLine = <<>>,
                    !.lineLength = 0]
  ELSE [st EXCEPT !.currentLine = Append(@, char),
                  !.lineLength = @ + 1]

\* the end of breakLines: what is left in currentLine is written out
breakLinesEnd(r) == IF Len(r.currentLine) > 0 THEN r.output \o r.currentLine ELSE r.output

breakLines(input) ==
  breakLinesEnd(FoldLeft(breakLinesStep,
                         [output |-> <<>>, currentLine |-> <<>>, inANSISequence |-> FALSE,
                          lineLength |-> 0, ansiSequenceBuilder |-> <<>>],
                         input))

\* highlightRanges is a sequence of [Start, End]; i is the 0-based index of char
breakWithColor(input, c, highlightRanges) ==
  LET paint(str) == IF c = NilColor THEN <<>> ELSE Sprint(c, str)
      step(st, char) ==
        LET isColorRange == \E k \in 1..Len(highlightRanges) :
                              st.i >= highlightRanges[k].Start /\ st.i < highlightRanges[k].End
            written == st.output \o (IF isColorRange THEN paint(<<char>>) ELSE <<char>>)
        IN IF st.lineLen + 1 = MAX_LINE_LENGTH
             THEN [i |-> st.i + 1, output |-> written \o <<NL>>, lineLen |-> 0]
             ELSE [i |-> st.i + 1, output |-> written, lineLen |-> st.lineLen + 1]
      r == FoldLeft(step, [i |-> 0, output |-> <<>>, lineLen |-> 0], input)
  IN IF r.lineLen > 0 THEN r.output \o <<NL>> ELSE r.output

-----------------------------------------------------------------------------
(* The word-level differ and SprintDiffHeader *)

\* the indices 0..n-1 of a loop for i := 0; i < n; i++
Indices(n) == [k \in 1..n |-> k - 1]

\* the i-th element (0-based) of a slice of words, "" when i is out of bounds
WordAt(words, i) == IF i < Len(words) THEN words[i + 1] ELSE <<>>

\* the loop of diffArrayRange over the two slices of words
diffArrayRangeLoop(words1, words2, maxLen) ==
  LET step(st, i) ==
        IF WordAt(words1, i) # WordAt(words2, i)
          THEN [indices1 |-> IF i < Len(words1) THEN Append(st.indices1, i) ELSE st.indices1,
                indices2 |-> IF i < Len(words2) THEN Append(st.indices2, i) ELSE st.indices2,
                diff |-> TRUE]
          ELSE st
  IN FoldLeft(step, [indices1 |-> <<>>, indices2 |-> <<>>, diff |-> FALSE], Indices(maxLen))

\* a diffArrayRange without its two closing loops
diffArrayRangeRest_skipped(r, len1, len2) == r

\* the two loops that end diffArrayRange: the indices past the shorter slice
diffArrayRangeRest(r, len1, len2) ==
  [indices1 |-> r.indices1 \o (IF len1 > len2 THEN [k \in 1..(len1 - len2) |-> len2 + k - 1]
                                ELSE <<>>),
   indices2 |-> r.indices2 \o (IF len2 > len1 THEN [k \in 1..(len2 - len1) |-> len1 + k - 1]
                                ELSE <<>>),
   diff |-> r.diff]

diffArrayRangeWords(words1, words2) ==
  diffArrayRangeRest(
    diffArrayRangeLoop(words1, words2,
                       IF Len(words2) > Len(words1) THEN Len(words2) ELSE Len(words1)),
    Len(words1), Len(words2))

\* diffArrayRange: the word indices recorded for each side (the slices as the
\* code appends to them, repetitions included) and the diff flag
diffArrayRange(s1, s2) == diffArrayRangeWords(Split(s1, SP), Split(s2, SP))

contains(slice, element) == \E k \in 1..Len(slice) : slice[k] = element

breakSliceWords(words, c, offsets) ==
  LET step(st, i) ==
        IF contains(offsets, i) THEN st \o Sprint(c, words[i + 1]) \o <<SP>>
        ELSE st \o words[i + 1] \o <<SP>>
  IN FoldLeft(step, <<>>, Indices(Len(words)))

\* breakSliceWithColor: every word is followed by a space; the words whose
\* index is in offsets are coloured
breakSliceWithColor(s, c, offsets) == breakSliceWords(Split(s, SP), c, offsets)

\* the body of the loop of SprintDiffHeader, given the result of diffArrayRange
headerLines(st, key, expValue, actValue, offsets) ==
  [expectAll |-> st.expectAll
                   \o breakLines(key \o <<":", SP>>
                                   \o breakSliceWithColor(expValue, ansiHiRed, offsets.indices1))
                   \o <<NL>>,
   actualAll |-> st.actualAll
                   \o breakLines(key \o <<":", SP>>
                                   \o breakSliceWithColor(actValue, ansiHiGreen, offsets.indices2))
                   \o <<NL>>]

\* actual[key] of a map[string]string: "" for a missing key
HeaderValue(m, key) == IF key \in DOMAIN m THEN m[key] ELSE <<>>

\* SprintDiffHeader; order is the order in which range yields the keys of expect
SprintDiffHeader(expect, actual, order) ==
  LET step(st, key) ==
        headerLines(st, key, expect[key], HeaderValue(actual, key),
                    diffArrayRange(expect[key], HeaderValue(actual, key)))
  IN FoldLeft(step, [expectAll |-> <<>>, actualAll |-> <<>>], order)

\* the orders in which a range over a map with key set S may yield its keys
RangeOrders(S) ==
  {o \in [1..Cardinality(S) -> S] : \A i, j \in 1..Cardinality(S) : i # j => o[i] # o[j]}

-----------------------------------------------------------------------------
(* truncateToMatchWithEllipsis *)

\* the ellipsis element: yellow, three dots on three lines, reset
ellipsis == ansiYellow \o <<".", NL, ".", NL, ".">> \o ansiReset

\* truncate with the margin test taken one line too wide
truncate_wideMargin(lines, matchLineCount, color) ==
  IF Len(lines) <= matchLineCount THEN Join(lines, <<NL>>)
  ELSE IF matchLineCount <= 3 \/ Len(lines) - matchLineCount <= 3
    THEN Join(lines, <<NL>>)
  ELSE
    LET topHalfLineCount == (matchLineCount - 3) \div 2
        bottomHalfLineCount == matchLineCount - 3 - topHalfLineCount
    IN Join(SubSeq(lines, 1, topHalfLineCount) \o <<ellipsis \o color>>
              \o SubSeq(lines, Len(lines) - bottomHalfLineCount + 1, Len(lines)),
            <<NL>>) \o ansiReset

\* truncate with the three lines of the ellipsis left out of the line budget
truncate_noEllipsisBudget(lines, matchLineCount, color) ==
  IF Len(lines) <= matchLineCount THEN Join(lines, <<NL>>)
  ELSE IF matchLineCount <= 3 \/ Len(lines) - matchLineCount < 3
    THEN Join(lines, <<NL>>)
  ELSE
    LET topHalfLineCount == (matchLineCount - 3) \div 2
        bottomHalfLineCount == matchLineCount - topHalfLineCount
    IN Join(SubSeq(lines, 1, topHalfLineCount) \o <<ellipsis \o color>>
              \o SubSeq(lines, Len(lines) - bottomHalfLineCount + 1, Len(lines)),
            <<NL>>) \o ansiReset

\* the closure truncate: lines is the slice strings.Split returned (its capacity
\* is its length), so both appends write into the backing array of lines; the
\* second append copies the tail as copy() does, reading the tail before any
\* element is written
truncate(lines, matchLineCount, color) ==
  IF Len(lines) <= matchLineCount THEN Join(lines, <<NL>>)
  ELSE IF matchLineCount <= 3 \/ Len(lines) - matchLineCount < 3
    THEN Join(lines, <<NL>>)
  ELSE
    LET topHalfLineCount == (matchLineCount - 3) \div 2
        bottomHalfLineCount == matchLineCount - 3 - topHalfLineCount
        n == Len(lines)
        backing1 == [lines EXCEPT ![topHalfLineCount + 1] = ellipsis \o color]
        backing2 == [j \in 1..n |->
                       IF j > topHalfLineCount + 1
                          /\ j <= topHalfLineCount + 1 + bottomHalfLineCount
                       THEN backing1[n - bottomHalfLineCount + (j - topHalfLineCount - 1)]
                       ELSE backing1[j]]
        truncated == SubSeq(backing2, 1, topHalfLineCount + 1 + bottomHalfLineCount)
    IN Join(truncated, <<NL>>) \o ansiReset

\* a truncation to half the longer block, whatever the other block
truncateToMatchWithEllipsis_halfOfLonger(expText, actText) ==
  LET expectedLines == Split(expText, NL)
      actualLines == Split(actText, NL)
      matchLineCount == (IF Len(expectedLines) > Len(actualLines) THEN Len(expectedLines)
                         ELSE Len(actualLines)) \div 2
  IN [expected |-> truncate(expectedLines, matchLineCount + 1, ansiRed),
      actual   |-> truncate(actualLines, matchLineCount + 1, ansiGreen)]

truncateToMatchWithEllipsis(expText, actText) ==
  LET expectedLines == Split(expText, NL)
      actualLines == Split(actText, NL)
      matchLineCount == (Len(expectedLines) + Len(actualLines)) \div 2
  IN [expected |-> truncate(expectedLines, matchLineCount + 1, ansiRed),
      actual   |-> truncate(actualLines, matchLineCount + 1, ansiGreen)]

-----------------------------------------------------------------------------
(* Inputs of the truncation: blocks of 1..MaxBlockLines lines *)

MaxBlockLines == 20

RECURSIVE Itoa(_)
\* strconv.Itoa for a natural number
Itoa(n) == IF n < 10 THEN <<Digits[n + 1]>> ELSE Itoa(n \div 10) \o <<Digits[(n % 10) + 1]>>

\* a block of n distinct lines; every third line is a coloured line
BlockLine(tag, k) ==
  IF k % 3 = 0 THEN ansiRed \o <<tag>> \o Itoa(k) \o ansiReset
  ELSE <<tag>> \o Itoa(k)

Block(tag, n) == Join([k \in 1..n |-> BlockLine(tag, k)], <<NL>>)

InitTrunc ==
  /\ tpc = "idle"
  /\ expectedText = <<>>
  /\ actualText = <<>>
  /\ truncatedExpected = <<>>
  /\ truncatedActual = <<>>

TruncateCall ==
  /\ tpc = "idle"
  /\ \E e \in 1..MaxBlockLines, a \in 1..MaxBlockLines :
       LET r == truncateToMatchWithEllipsis(Block("e", e), Block("a", a))
       IN /\ expectedText' = Block("e", e)
          /\ actualText' = Block("a", a)
          /\ truncatedExpected' = r.expected
          /\ truncatedActual' = r.actual
  /\ tpc' = "done"
  /\ UNCHANGED othersTrunc

TruncateReturn ==
  /\ tpc = "done"
  /\ tpc' = "idle"
  /\ expectedText' = <<>>
  /\ actualText' = <<>>
  /\ truncatedExpected' = <<>>
  /\ truncatedActual' = <<>>
  /\ UNCHANGED othersTrunc

NextTrunc == TruncateCall \/ TruncateReturn

-----------------------------------------------------------------------------
(* Reading a rendered text: physical lines *)

NLPositions(text) == {i \in 1..Len(text) : text[i] = NL}

NumLines(text) == Cardinality(NLPositions(text)) + 1

\* the position of the k-th line break of text (0 before the first line)
BreakBefore(text, k) ==
  IF k = 1 THEN 0
  ELSE CHOOSE p \in NLPositions(text) :
         Cardinality({q \in NLPositions(text) : q < p}) = k - 2

\* the k-th physical line of text, 1 <= k <= NumLines(text)
PhysLine(text, k) ==
  LET from == BreakBefore(text, k) + 1
      to == IF k = NumLines(text) THEN Len(text) ELSE BreakBefore(text, k + 1) - 1
  IN SubSeq(text, from, to)

-----------------------------------------------------------------------------
(* Claims on truncateToMatchWithEllipsis *)

Threshold == (NumLines(expectedText) + NumLines(actualText)) \div 2 + 1

Overflows(text) ==
  /\ NumLines(text) > Threshold
  /\ Threshold > 3
  /\ NumLines(text) - Threshold >= 3

\* C9: a block of n lines is truncated if and only if n > t, t > 3 and
\* n - t >= 3, where t = floor((E + A) / 2) + 1; in every other case the block
\* is returned unchanged, with no ellipsis marker and no added escape code.
C9_TruncatesIffOverflow ==
  tpc = "done" =>
    /\ Overflows(expectedText) <=> Contains(truncatedExpected, ellipsis)
    /\ Overflows(actualText) <=> Contains(truncatedActual, ellipsis)
    /\ ~Overflows(expectedText) => truncatedExpected = expectedText
    /\ ~Overflows(actualText) => truncatedActual = actualText

\* a block was truncated, and the other block, over no threshold, was not
C9_Witness ==
  /\ tpc = "done"
  /\ Overflows(expectedText)
  /\ truncatedExpected # expectedText
  /\ truncatedActual = actualText

TopKept == (Threshold - 3) \div 2
BottomKept == Threshold - 3 - TopKept

\* out is block in truncated to Threshold lines: the first TopKept lines of in,
\* the three lines of the ellipsis marker (followed by the block's colour code),
\* and the last BottomKept lines of in, the last of them followed by lastSuffix
TruncatedShape(in, out, color, lastSuffix) ==
  /\ NumLines(out) = Threshold
  /\ \A k \in 1..TopKept : PhysLine(out, k) = PhysLine(in, k)
  /\ PhysLine(out, TopKept + 1) = ansiYellow \o <<".">>
  /\ PhysLine(out, TopKept + 2) = <<".">>
  /\ PhysLine(out, TopKept + 3) = <<".">> \o ansiReset \o color
  /\ \A k \in 1..BottomKept :
       PhysLine(out, TopKept + 3 + k) =
         PhysLine(in, NumLines(in) - BottomKept + k)
           \o (IF k = BottomKept THEN lastSuffix ELSE <<>>)

\* C10 as stated: a truncated block has exactly t lines, the first
\* floor((t-3)/2) original lines, the three-line ellipsis marker, and the last
\* t - 3 - floor((t-3)/2) original lines, every kept line identical to the
\* original line at that position.
C10_KeptLinesIdentical ==
  tpc = "done" =>
    /\ Overflows(expectedText) =>
         TruncatedShape(expectedText, truncatedExpected, ansiRed, <<>>)
    /\ Overflows(actualText) =>
         TruncatedShape(actualText, truncatedActual, ansiGreen, <<>>)

\* C10 amended: as C10, except that the last kept line is the original last
\* line followed by the reset code; every other kept line is identical to the
\* original line at that position.
C10_KeptLinesUpToFinalReset ==
  tpc = "done" =>
    /\ Overflows(expectedText) =>
         TruncatedShape(expectedText, truncatedExpected, ansiRed, ansiReset)
    /\ Overflows(actualText) =>
         TruncatedShape(actualText, truncatedActual, ansiGreen, ansiReset)

\* a truncation whose copied tail lies in the part of the backing array the
\* copy writes to (the kept tail is at least six lines long)
C10_Witness ==
  /\ tpc = "done"
  /\ Overflows(actualText)
  /\ BottomKept >= 6
  /\ NumLines(actualText) <= TopKept + 2 * BottomKept
  /\ truncatedActual # actualText

\* C26: of the two blocks at most one is truncated, and never the block that
\* has the smaller or the equal number of lines: that block is returned
\* unchanged whatever the size of the other block.
C26_ShorterBlockUnchanged ==
  tpc = "done" =>
    /\ NumLines(expectedText) <= NumLines(actualText) => truncatedExpected = expectedText
    /\ NumLines(actualText) <= NumLines(expectedText) => truncatedActual = actualText
    /\ truncatedExpected = expectedText \/ truncatedActual = actualText

\* an expected block of one line against a truncated actual block
C26_Witness ==
  /\ tpc = "done"
  /\ NumLines(expectedText) = 1
  /\ truncatedExpected = expectedText
  /\ Overflows(actualText)
  /\ Contains(truncatedActual, ellipsis)

-----------------------------------------------------------------------------
(* Inputs of the wrapping: one line of digits around the width, with a       *)
(* coloured stretch and possibly a tab or a line break in it                 *)

WrapSlack == 2

Plain(n) == [k \in 1..n |-> Digits[(k % 10) + 1]]

ColouredInputs ==
  { Plain(pre) \o Sprint(ansiRed, Plain(col)) \o mid \o Plain(post) :
      pre \in (MAX_LINE_LENGTH - WrapSlack)..(MAX_LINE_LENGTH + WrapSlack),
      col \in 0..WrapSlack,
      mid \in {<<>>, <<NL>>, <<TAB>>},
      post \in (0..WrapSlack) \cup {MAX_LINE_LENGTH + d : d \in 0..WrapSlack} }

\* the highlight ranges separateAndColorize passes: none, the whole line but its
\* last character, or a stretch across the width
RangeInputs(n) ==
  { <<>>, <<[Start |-> 0, End |-> n - 1]>>,
    <<[Start |-> MAX_LINE_LENGTH - WrapSlack, End |-> MAX_LINE_LENGTH + WrapSlack]>> }

InitWrap ==
  /\ wpc = "idle"
  /\ wfn = "none"
  /\ wInput = <<>>
  /\ wColor = NilColor
  /\ wRanges = <<>>
  /\ wOutput = <<>>

BreakLinesCall ==
  /\ wpc = "idle"
  /\ \E input \in ColouredInputs :
       /\ wInput' = input
       /\ wOutput' = breakLines(input)
  /\ wfn' = "breakLines"
  /\ wpc' = "done"
  /\ UNCHANGED <<wColor, wRanges>>
  /\ UNCHANGED othersWrap

BreakWithColorCall ==
  /\ wpc = "idle"
  /\ \E n \in (MAX_LINE_LENGTH - WrapSlack)..(2 * MAX_LINE_LENGTH + WrapSlack),
        c \in {NilColor, ansiRed, ansiGreen} :
       \E r \in (IF c = NilColor THEN {<<>>} ELSE RangeInputs(n)) :
         /\ wInput' = Plain(n)
         /\ wColor' = c
         /\ wRanges' = r
         /\ wOutput' = breakWithColor(Plain(n), c, r)
  /\ wfn' = "breakWithColor"
  /\ wpc' = "done"
  /\ UNCHANGED othersWrap

WrapReturn ==
  /\ wpc = "done"
  /\ wpc' = "idle"
  /\ wfn' = "none"
  /\ wInput' = <<>>
  /\ wColor' = NilColor
  /\ wRanges' = <<>>
  /\ wOutput' = <<>>
  /\ UNCHANGED othersWrap

NextWrap == BreakLinesCall \/ BreakWithColorCall \/ WrapReturn

-----------------------------------------------------------------------------
(* Reading a rendered text: escape sequences and visible characters *)

DigitSet == {Digits[k] : k \in 1..10}

\* one character of a left-to-right reading of a text that drops every colour
\* code ESC [ digits m; a code that is cut short (by a line break or by any
\* other character) is kept as text and marks the reading as broken
StripStep(st, c) ==
  IF st.pending = <<>> THEN
    IF c = ESC THEN [st EXCEPT !.pending = <<c>>]
    ELSE [st EXCEPT !.text = Append(@, c)]
  ELSE IF Len(st.pending) = 1 /\ c = "[" THEN [st EXCEPT !.pending = Append(@, c)]
  ELSE IF Len(st.pending) >= 2 /\ c = "m" THEN [st EXCEPT !.pending = <<>>]
  ELSE IF Len(st.pending) >= 2 /\ c \in DigitSet \cup {";"}
    THEN [st EXCEPT !.pending = Append(@, c)]
  ELSE [st EXCEPT !.broken = TRUE, !.text = @ \o st.pending \o <<c>>, !.pending = <<>>]

StripScan(text) == FoldLeft(StripStep, [text |-> <<>>, pending |-> <<>>, broken |-> FALSE], text)

\* text without its colour codes
StripAnsi(text) == StripScan(text).text

\* every escape byte of text starts a complete colour code
NoSplitEscape(text) == ~StripScan(text).broken /\ StripScan(text).pending = <<>>

\* the greatest number of visible characters on one physical line of text
MaxVisibleLine(text) ==
  LET step(st, c) ==
        IF c = NL THEN [cur |-> 0, max |-> st.max]
        ELSE IF c \in {TAB, ESC} THEN st
        ELSE [cur |-> st.cur + 1, max |-> IF st.cur + 1 > st.max THEN st.cur + 1 ELSE st.max]
  IN FoldLeft(step, [cur |-> 0, max |-> 0], StripAnsi(text)).max

-----------------------------------------------------------------------------
(* Claims on breakLines and breakWithColor *)

\* C8: wrapping with breakLines and with breakWithColor at width 50 never splits
\* an escape sequence across two lines, and once the escape sequences are
\* stripped every physical line of the output has at most 50 visible characters.
C8_WrapKeepsEscapesAndWidth ==
  wpc = "done" =>
    /\ NoSplitEscape(wOutput)
    /\ MaxVisibleLine(wOutput) <= MAX_LINE_LENGTH

\* breakLines broke a full line inside a coloured stretch
C8_Witness ==
  /\ wpc = "done"
  /\ wfn = "breakLines"
  /\ MaxVisibleLine(wOutput) = MAX_LINE_LENGTH
  /\ \E d \in DigitSet : Contains(wOutput, ansiRed \o <<d, NL>>)

\* text without its line breaks
WithoutBreaks(text) == SelectSeq(text, LAMBDA c : c # NL)

\* C25: breakLines loses no character: its output without the line breaks is
\* its input without the line breaks; the character read when the current
\* line holds 50 visible characters is carried over to the next line.
C25_BreakLinesKeepsEveryCharacter ==
  (wpc = "done" /\ wfn = "breakLines") => WithoutBreaks(wOutput) = WithoutBreaks(wInput)

-----------------------------------------------------------------------------
(* Inputs of the header comparison *)

HeaderKeys == { <<"E", "t", "a", "g">>, <<"V", "a", "r", "y">> }

HeaderValues ==
  { <<>>, <<"O", "r", "i", "g", "i", "n">>, <<"a", SP, "b">>, <<"a", SP, "c">>, <<"a">> }

\* the maps from some of the header keys to header values
HeaderMaps == UNION { [S -> HeaderValues] : S \in SUBSET HeaderKeys }

EmptyMap == CHOOSE m \in HeaderMaps : DOMAIN m = {}

InitHeader ==
  /\ hpc = "idle"
  /\ hExpect = EmptyMap
  /\ hActual = EmptyMap
  /\ hExpectAll = <<>>
  /\ hActualAll = <<>>

SprintDiffHeaderCall ==
  /\ hpc = "idle"
  /\ \E expect \in HeaderMaps, actual \in HeaderMaps :
       \E order \in RangeOrders(DOMAIN expect) :
         LET r == SprintDiffHeader(expect, actual, order)
         IN /\ hExpect' = expect
            /\ hActual' = actual
            /\ hExpectAll' = r.expectAll
            /\ hActualAll' = r.actualAll
  /\ hpc' = "done"
  /\ UNCHANGED othersHeader

SprintDiffHeaderReturn ==
  /\ hpc = "done"
  /\ hpc' = "idle"
  /\ hExpect' = EmptyMap
  /\ hActual' = EmptyMap
  /\ hExpectAll' = <<>>
  /\ hActualAll' = <<>>
  /\ UNCHANGED othersHeader

NextHeader == SprintDiffHeaderCall \/ SprintDiffHeaderReturn

-----------------------------------------------------------------------------
(* Claims on SprintDiffHeader *)

\* the number of physical lines of text that start with prefix
LinesStarting(text, prefix) ==
  Cardinality({k \in 1..NumLines(text) : OccursAt(PhysLine(text, k), prefix, 1)})

\* C7: the header comparison appends to each of its two outputs exactly one
\* rendered line 'key: value' for every header key that occurs in the expected
\* or in the actual mapping.
C7_OneLinePerHeaderKey ==
  hpc = "done" =>
    \A key \in DOMAIN hExpect \cup DOMAIN hActual :
      /\ LinesStarting(hExpectAll, key \o <<":", SP>>) = 1
      /\ LinesStarting(hActualAll, key \o <<":", SP>>) = 1

-----------------------------------------------------------------------------
(* Go values of type interface{} as encoding/json produces them, and the   *)
(* texts encoding/json and fmt make of them                                *)

\* the bytes that occur in the modelled texts, in the order of their codes
ByteOrder ==
  <<SP, QUOTE, "%", "'", "+", ",", "-", ".", "0", "1", "2", "3", "4", "5", "6", "7", "8", "9", ":", "<", ">",
    "C", "D", "V", "X", "[", "]",
    "a", "b", "c", "d", "e", "f", "g", "i", "k", "l", "m", "n", "o", "p", "r", "s", "t", "u",
    "v", "x", "y", "{", "|", "}">>

Rank(char) == CHOOSE k \in 1..Len(ByteOrder) : ByteOrder[k] = char

\* s1 < s2 for two Go strings
RECURSIVE StringLess(_, _)
StringLess(s1, s2) ==
  IF s2 = <<>> THEN FALSE
  ELSE IF s1 = <<>> THEN TRUE
  ELSE IF s1[1] # s2[1] THEN Rank(s1[1]) < Rank(s2[1])
  ELSE StringLess(Tail(s1), Tail(s2))

\* sort.Strings of a set of keys
RECURSIVE SortedKeys(_)
SortedKeys(S) ==
  IF S = {} THEN <<>>
  ELSE LET least == CHOOSE k \in S : \A other \in S \ {k} : StringLess(k, other)
       IN <<least>> \o SortedKeys(S \ {least})

Reverse(s) == [k \in 1..Len(s) |-> s[Len(s) + 1 - k]]

\* nil, bool, float64 (whole numbers), string, []interface{}, map[string]interface{}
Nil == [t |-> "nil"]
Bool(b) == [t |-> "bool", b |-> b]
Num(n) == [t |-> "num", n |-> n]
Str(s) == [t |-> "str", s |-> s]
Arr(a) == [t |-> "arr", a |-> a]
Map(m) == [t |-> "map", m |-> m]
\* a nil map[string]interface{}: what Unmarshal leaves in the target for the text null
NilMap == [t |-> "nilmap"]

\* v.(map[string]interface{}) and v.([]interface{}) succeed
isMap(v) == v.t \in {"map", "nilmap"}
isSlice(v) == v.t = "arr"

\* the keys of a map value (none for the nil map)
MapKeys(v) == IF v.t = "map" THEN DOMAIN v.m ELSE {}

\* the order in which a range over the map yields its keys: unspecified in Go;
\* order selects one of two orders, which are all the orders of a map of two keys
RangeKeys(v, order) ==
  IF order = "ascending" THEN SortedKeys(MapKeys(v)) ELSE Reverse(SortedKeys(MapKeys(v)))

\* strings.Repeat("  ", depth)
Indent(depth) == [k \in 1..(2 * depth) |-> SP]

\* json.MarshalIndent(v, "", "  ") below depth levels of nesting; keys sorted
RECURSIVE MarshalAt(_, _)
MarshalAt(v, depth) ==
  CASE v.t = "nil" -> <<"n", "u", "l", "l">>
    [] v.t = "nilmap" -> <<"n", "u", "l", "l">>
    [] v.t = "bool" -> IF v.b THEN <<"t", "r", "u", "e">> ELSE <<"f", "a", "l", "s", "e">>
    [] v.t = "num" -> Itoa(v.n)
    [] v.t = "str" -> <<QUOTE>> \o v.s \o <<QUOTE>>
    [] v.t = "arr" ->
         IF v.a = <<>> THEN <<"[", "]">>
         ELSE <<"[", NL>>
                \o Join([k \in 1..Len(v.a) |-> Indent(depth + 1) \o MarshalAt(v.a[k], depth + 1)],
                        <<",", NL>>)
                \o <<NL>> \o Indent(depth) \o <<"]">>
    [] v.t = "map" ->
         IF DOMAIN v.m = {} THEN <<"{", "}">>
         ELSE <<"{", NL>>
                \o Join([k \in 1..Cardinality(DOMAIN v.m) |->
                           Indent(depth + 1) \o <<QUOTE>> \o SortedKeys(DOMAIN v.m)[k]
                             \o <<QUOTE, ":", SP>>
                             \o MarshalAt(v.m[SortedKeys(DOMAIN v.m)[k]], depth + 1)],
                        <<",", NL>>)
                \o <<NL>> \o Indent(depth) \o <<"}">>

MarshalIndent(v) == MarshalAt(v, 0)

\* serialize: MarshalIndent does not fail on these values
serialize(value) == MarshalIndent(value)

\* fmt's %v of a value
RECURSIVE FormatV(_)
FormatV(v) ==
  CASE v.t = "nil" -> <<"<", "n", "i", "l", ">">>
    [] v.t = "nilmap" -> <<"m", "a", "p", "[", "]">>
    [] v.t = "bool" -> IF v.b THEN <<"t", "r", "u", "e">> ELSE <<"f", "a", "l", "s", "e">>
    [] v.t = "num" -> Itoa(v.n)
    [] v.t = "str" -> v.s
    [] v.t = "arr" -> <<"[">> \o Join([k \in 1..Len(v.a) |-> FormatV(v.a[k])], <<SP>>) \o <<"]">>
    [] v.t = "map" ->
         <<"m", "a", "p", "[">>
           \o Join([k \in 1..Cardinality(DOMAIN v.m) |->
                      SortedKeys(DOMAIN v.m)[k] \o <<":">>
                        \o FormatV(v.m[SortedKeys(DOMAIN v.m)[k]])],
                   <<SP>>)
           \o <<"]">>

\* red("%v", value): the colour function is fmt.Sprint, which does not
\* interpret the verb and writes it before the value
SprintVerb(c, value) == Sprint(c, <<"%", "v">> \o FormatV(value))
-----------------------------------------------------------------------------
(* compare, compareAndColorizeMaps, compareAndColorizeSlices.  The two      *)
(* strings.Builder arguments are the record st with fields expected and     *)
(* actual; red and green are the colour codes of the two colour functions.  *)

\* fmt.Sprintf("%s\"%s\": %s,\n", indent, key, text)
keyValueLine(indent, key, text) ==
  indent \o <<QUOTE>> \o key \o <<QUOTE, ":", SP>> \o text \o <<",", NL>>

\* a writeKeyValuePair that never colours the value
writeKeyValuePair_plainValue(key, value, indent, colorFunc) ==
  keyValueLine(indent, key, MarshalIndent(value))

\* writeKeyValuePair: the text it writes to the builder; colorFunc is never nil
\* at its call sites
writeKeyValuePair(key, value, indent, colorFunc) ==
  IF value # Str(<<>>)
    THEN keyValueLine(indent, key, Sprint(colorFunc, MarshalIndent(value)))
    ELSE keyValueLine(indent, key, MarshalIndent(value))

\* fmt.Sprintf("%s[%d]: %s\n", indent, i, text)
sliceEntry(indent, i, text) ==
  indent \o <<"[">> \o Itoa(i) \o <<"]", ":", SP>> \o text \o <<NL>>

\* an index that exists in the first slice only
sliceOnlyFirst(st, indent, i, aValue, red) ==
  [expected |-> st.expected \o sliceEntry(indent, i, Sprint(red, serialize(aValue))),
   actual |-> st.actual]

\* an index of the second slice only, written to both sides
sliceOnlySecond_bothSides(st, indent, i, bValue, green) ==
  [expected |-> st.expected \o sliceEntry(indent, i, Sprint(green, serialize(bValue))),
   actual |-> st.actual \o sliceEntry(indent, i, Sprint(green, serialize(bValue)))]

\* an index that exists in the second slice only
sliceOnlySecond(st, indent, i, bValue, green) ==
  [expected |-> st.expected,
   actual |-> st.actual \o sliceEntry(indent, i, Sprint(green, serialize(bValue)))]

\* both elements exist and their types do not match
sliceMismatch(st, indent, i, aValue, bValue, red, green) ==
  [expected |-> st.expected \o sliceEntry(indent, i, SprintVerb(red, aValue)),
   actual |-> st.actual \o sliceEntry(indent, i, SprintVerb(green, bValue))]

\* both elements exist and neither is a map or a slice (the default case)
sliceDefault(st, indent, i, aValue, bValue, red, green) ==
  IF aValue # bValue
    THEN [expected |-> st.expected \o sliceEntry(indent, i, Sprint(red, FormatV(aValue))),
          actual |-> st.actual \o sliceEntry(indent, i, Sprint(green, FormatV(bValue)))]
    ELSE [expected |-> st.expected \o sliceEntry(indent, i, FormatV(aValue)),
          actual |-> st.actual \o sliceEntry(indent, i, FormatV(bValue))]

\* both elements are maps: nested is the result of compareAndColorizeMaps
sliceMaps(st, indent, i, nested) ==
  [expected |-> st.expected \o sliceEntry(indent, i, nested.expected),
   actual |-> st.actual \o sliceEntry(indent, i, nested.actual)]

\* both elements are slices: nested is the result of compareAndColorizeSlices;
\* fmt.Sprintf("%s[%d]: [\n%s%s]\n", indent, i, text, indent)
sliceSlices(st, indent, i, nested) ==
  [expected |-> st.expected \o indent \o <<"[">> \o Itoa(i) \o <<"]", ":", SP, "[", NL>>
                  \o nested.expected \o indent \o <<"]", NL>>,
   actual |-> st.actual \o indent \o <<"[">> \o Itoa(i) \o <<"]", ":", SP, "[", NL>>
                \o nested.actual \o indent \o <<"]", NL>>]

\* the default case of compare for two values that are not deeply equal:
\* the words that differ are coloured, the line is wrapped
compareDiffering_wholeValue(key, val1Str, val2Str, indent, st, offsets, red, green) ==
  [expected |-> st.expected
                  \o breakLines(keyValueLine(indent, key, Sprint(red, val1Str) \o <<SP>>)),
   actual |-> st.actual
                \o breakLines(keyValueLine(indent, key, Sprint(green, val2Str) \o <<SP>>))]

compareDiffering(key, val1Str, val2Str, indent, st, offsets, red, green) ==
  [expected |-> st.expected
                  \o breakLines(keyValueLine(indent, key,
                                             breakSliceWithColor(val1Str, red, offsets.indices1))),
   actual |-> st.actual
                \o breakLines(keyValueLine(indent, key,
                                           breakSliceWithColor(val2Str, green, offsets.indices2)))]

\* the default case of compare
compareDefault(key, val1, val2, indent, st, red, green) ==
  IF val1 # val2
    THEN compareDiffering(key, MarshalIndent(val1), MarshalIndent(val2), indent, st,
                          diffArrayRange(MarshalIndent(val1), MarshalIndent(val2)), red, green)
    ELSE [expected |-> st.expected \o keyValueLine(indent, key, MarshalIndent(val1)),
          actual |-> st.actual \o keyValueLine(indent, key, MarshalIndent(val1))]

\* the types of the two values do not match
compareMismatch(key, val1, val2, indent, st, red, green) ==
  [expected |-> st.expected \o writeKeyValuePair(key, val1, indent, red),
   actual |-> st.actual \o writeKeyValuePair(key, val2, indent, green)]

\* both values are maps; fmt.Sprintf("%s\"%s\": %s\n", indent, key, text)
compareMaps(key, indent, st, nested) ==
  [expected |-> st.expected \o indent \o <<QUOTE>> \o key \o <<QUOTE, ":", SP>>
                  \o nested.expected \o <<NL>>,
   actual |-> st.actual \o indent \o <<QUOTE>> \o key \o <<QUOTE, ":", SP>>
                \o nested.actual \o <<NL>>]

\* both values are slices; fmt.Sprintf("%s\"%s\": [\n%s\n%s]\n", indent, key, text, indent)
compareSlices(key, indent, st, nested) ==
  [expected |-> st.expected \o indent \o <<QUOTE>> \o key \o <<QUOTE, ":", SP, "[", NL>>
                  \o nested.expected \o <<NL>> \o indent \o <<"]", NL>>,
   actual |-> st.actual \o indent \o <<QUOTE>> \o key \o <<QUOTE, ":", SP, "[", NL>>
                \o nested.actual \o <<NL>> \o indent \o <<"]", NL>>]

\* the end of compareAndColorizeMaps: the closing braces
closeMaps(st, indent) ==
  [expected |-> st.expected \o indent \o <<"}">>, actual |-> st.actual \o indent \o <<"}">>]

RECURSIVE compareAndColorizeSlices(_, _, _, _, _, _)
RECURSIVE compareAndColorizeMaps(_, _, _, _, _, _)
RECURSIVE compare(_, _, _, _, _, _, _, _)

\* a and b are sequences of values; order is the range order of the maps below
compareAndColorizeSlices(a, b, indent, red, green, order) ==
  LET step(st, i) ==
        IF i < Len(a) /\ i < Len(b) THEN
          IF isMap(a[i + 1]) THEN
            IF isMap(b[i + 1])
              THEN sliceMaps(st, indent, i,
                             compareAndColorizeMaps(a[i + 1], b[i + 1], indent \o <<SP, SP>>,
                                                    red, green, order))
              ELSE sliceMismatch(st, indent, i, a[i + 1], b[i + 1], red, green)
          ELSE IF isSlice(a[i + 1]) THEN
            IF isSlice(b[i + 1])
              THEN sliceSlices(st, indent, i,
                               compareAndColorizeSlices(a[i + 1].a, b[i + 1].a,
                                                        indent \o <<SP, SP>>, red, green, order))
              ELSE sliceMismatch(st, indent, i, a[i + 1], b[i + 1], red, green)
          ELSE sliceDefault(st, indent, i, a[i + 1], b[i + 1], red, green)
        ELSE IF i < Len(a) THEN sliceOnlyFirst(st, indent, i, a[i + 1], red)
        ELSE sliceOnlySecond(st, indent, i, b[i + 1], green)
  IN FoldLeft(step, [expected |-> <<>>, actual |-> <<>>],
              Indices(IF Len(b) > Len(a) THEN Len(b) ELSE Len(a)))

\* a and b are map values
compareAndColorizeMaps(a, b, indent, red, green, order) ==
  LET first(st, key) ==
        IF key \notin MapKeys(b)
          THEN [expected |-> st.expected
                               \o writeKeyValuePair(Sprint(red, key), a.m[key],
                                                    indent \o <<SP, SP>>, red),
                actual |-> st.actual]
          ELSE compare(key, a.m[key], b.m[key], indent \o <<SP, SP>>, st, red, green, order)
      second(st, key) ==
        IF key \notin MapKeys(a)
          THEN [expected |-> st.expected,
                actual |-> st.actual
                             \o writeKeyValuePair(Sprint(green, key), b.m[key],
                                                  indent \o <<SP, SP>>, green)]
          ELSE st
  IN closeMaps(FoldLeft(second,
                        FoldLeft(first, [expected |-> <<"{", NL>>, actual |-> <<"{", NL>>],
                                 RangeKeys(a, order)),
                        RangeKeys(b, order)),
               indent)

compare(key, val1, val2, indent, st, red, green, order) ==
  IF isMap(val1) THEN
    IF isMap(val2)
      THEN compareMaps(key, indent, st,
                       compareAndColorizeMaps(val1, val2, indent \o <<SP, SP>>, red, green, order))
      ELSE compareMismatch(key, val1, val2, indent, st, red, green)
  ELSE IF isSlice(val1) THEN
    IF isSlice(val2)
      THEN compareSlices(key, indent, st,
                         compareAndColorizeSlices(val1.a, val2.a, indent \o <<SP, SP>>,
                                                  red, green, order))
      ELSE compareMismatch(key, val1, val2, indent, st, red, green)
  ELSE compareDefault(key, val1, val2, indent, st, red, green)
-----------------------------------------------------------------------------
(* Inputs of the comparison of two maps and of two slices *)

kName == <<"n", "a", "m", "e">>
kId == <<"i", "d">>
kX == <<"x">>
sCat == <<"C", "a", "t">>
sDog == <<"D", "o", "g">>
sVary == <<"V", "a", "r", "y">>

\* the map with the one key k
OneKey(k, v) == Map([key \in {k} |-> v])

\* the map with the two keys k1 and k2
TwoKeys(k1, v1, k2, v2) == Map([key \in {k1, k2} |-> IF key = k1 THEN v1 ELSE v2])

EmptyGoMap == Map(<<>>)

NameValues == {Str(sCat), Str(sDog), Str(<<"a", SP, "b">>), Str(<<"a", SP, "c">>), Str(<<>>)}

IdValues == {Num(3), Num(4), Arr(<<Num(1)>>), OneKey(kId, Num(1))}

\* the maps with some of the keys name and id
CompareMapInputs ==
  {EmptyGoMap}
    \cup {OneKey(kName, v) : v \in NameValues}
    \cup {OneKey(kId, v) : v \in IdValues}
    \cup {TwoKeys(kName, v1, kId, v2) : v1 \in NameValues, v2 \in IdValues}

SliceElements == {Num(1), Str(sVary), Arr(<<Num(1)>>), OneKey(kX, Num(1))}

MaxSliceLen == 2

CompareSliceInputs == UNION {[1..n -> SliceElements] : n \in 0..MaxSliceLen}

InitCompare ==
  /\ cpc = "idle"
  /\ cfn = "none"
  /\ cA = Nil
  /\ cB = Nil
  /\ cExpected = <<>>
  /\ cActual = <<>>

\* compareAndColorizeMaps(a, b, " ", red, green) as separateAndColorize calls it
CompareMapsCall ==
  /\ cpc = "idle"
  /\ \E a \in CompareMapInputs, b \in CompareMapInputs, order \in {"ascending", "descending"} :
       /\ cA' = a
       /\ cB' = b
       /\ \E r \in {compareAndColorizeMaps(a, b, <<SP>>, ansiRed, ansiGreen, order)} :
            /\ cExpected' = r.expected
            /\ cActual' = r.actual
  /\ cfn' = "maps"
  /\ cpc' = "done"
  /\ UNCHANGED othersCompare

\* compareAndColorizeSlices(a, b, " ", red, green) as separateAndColorize calls it
CompareSlicesCall ==
  /\ cpc = "idle"
  /\ \E a \in CompareSliceInputs, b \in CompareSliceInputs :
       /\ cA' = Arr(a)
       /\ cB' = Arr(b)
       /\ \E r \in {compareAndColorizeSlices(a, b, <<SP>>, ansiRed, ansiGreen, "ascending")} :
            /\ cExpected' = r.expected
            /\ cActual' = r.actual
  /\ cfn' = "slices"
  /\ cpc' = "done"
  /\ UNCHANGED othersCompare

CompareReturn ==
  /\ cpc = "done"
  /\ cpc' = "idle"
  /\ cfn' = "none"
  /\ cA' = Nil
  /\ cB' = Nil
  /\ cExpected' = <<>>
  /\ cActual' = <<>>
  /\ UNCHANGED othersCompare

NextCompare == CompareMapsCall \/ CompareSlicesCall \/ CompareReturn

-----------------------------------------------------------------------------
(* Claims on the comparison of maps and of slices *)

isScalar(v) == v.t \in {"nil", "bool", "num", "str"}

\* the words of a text that are separated by single spaces
Words(text) == Split(text, SP)

\* the rendering of a value of which exactly the words are coloured that the
\* other value does not have at the same position; every word is followed by a space
WordsColoured(text, other, colour) ==
  LET ws == Words(text)
      os == Words(other)
      word(k) == IF k > Len(os) \/ ws[k] # os[k] THEN colour \o ws[k] \o ansiReset ELSE ws[k]
  IN Join([k \in 1..Len(ws) |-> word(k) \o <<SP>>], <<>>)

\* the text of a scalar value as the renderings show it
ScalarText(v) ==
  CASE v.t = "str" -> <<QUOTE>> \o v.s \o <<QUOTE>>
    [] v.t = "num" -> Itoa(v.n)
    [] v.t = "bool" -> IF v.b THEN <<"t", "r", "u", "e">> ELSE <<"f", "a", "l", "s", "e">>
    [] v.t = "nil" -> <<"n", "u", "l", "l">>

\* the line of a key of a nested mapping
NestedLine(key, text) == <<SP, SP, SP, QUOTE>> \o key \o <<QUOTE, ":", SP>> \o text \o <<",", NL>>

\* C5: in the comparison of two mappings, a key with two equal scalar values is
\* written identically and uncoloured on both sides; a key with two different
\* scalar values has exactly its differing space-separated words coloured,
\* as removed on the expected side and as added on the actual side.
C5_ScalarsWordLevel ==
  (cpc = "done" /\ cfn = "maps") =>
    \A key \in MapKeys(cA) \cap MapKeys(cB) :
      (isScalar(cA.m[key]) /\ isScalar(cB.m[key])) =>
        IF cA.m[key] = cB.m[key]
          THEN /\ Contains(cExpected, NestedLine(key, ScalarText(cA.m[key])))
               /\ Contains(cActual, NestedLine(key, ScalarText(cA.m[key])))
          ELSE /\ Contains(cExpected,
                           NestedLine(key, WordsColoured(ScalarText(cA.m[key]),
                                                         ScalarText(cB.m[key]), ansiRed)))
               /\ Contains(cActual,
                           NestedLine(key, WordsColoured(ScalarText(cB.m[key]),
                                                         ScalarText(cA.m[key]), ansiGreen)))

\* name Cat against Dog with id 3 on both sides, and a value of two words of
\* which one differs
C5_Witness ==
  /\ cpc = "done"
  /\ cfn = "maps"
  /\ cA = TwoKeys(kName, Str(sCat), kId, Num(3))
  /\ cB = TwoKeys(kName, Str(sDog), kId, Num(3))
  /\ Contains(cExpected, ansiRed \o <<QUOTE>> \o sCat \o <<QUOTE>> \o ansiReset)
  /\ Contains(cActual, ansiGreen \o <<QUOTE>> \o sDog \o <<QUOTE>> \o ansiReset)
  /\ Contains(cExpected, <<QUOTE>> \o kId \o <<QUOTE, ":", SP, "3", ",", NL>>)
  /\ Contains(cActual, <<QUOTE>> \o kId \o <<QUOTE, ":", SP, "3", ",", NL>>)

\* the entry of index i of a slice comparison
EntryPrefix(i) == <<SP, "[">> \o Itoa(i) \o <<"]", ":", SP>>

\* C6: the comparison of two sequences is positional: an index that only the
\* first sequence has yields exactly one entry, coloured removed, in the
\* expected text and none in the actual text; an index that only the second
\* has yields exactly one entry, coloured added, in the actual text and none
\* in the expected text; the expected text does not depend on the elements of
\* the second sequence beyond the end of the first.
C6_SlicesPositional ==
  (cpc = "done" /\ cfn = "slices") =>
    /\ \A i \in 0..(MaxSliceLen + 1) :
         /\ (i < Len(cA.a) /\ i >= Len(cB.a)) =>
              /\ LinesStarting(cExpected, EntryPrefix(i)) = 1
              /\ Contains(cExpected, EntryPrefix(i) \o ansiRed)
              /\ LinesStarting(cActual, EntryPrefix(i)) = 0
         /\ (i < Len(cB.a) /\ i >= Len(cA.a)) =>
              /\ LinesStarting(cActual, EntryPrefix(i)) = 1
              /\ Contains(cActual, EntryPrefix(i) \o ansiGreen)
              /\ LinesStarting(cExpected, EntryPrefix(i)) = 0
    /\ Len(cB.a) > Len(cA.a) =>
         cExpected = compareAndColorizeSlices(cA.a, SubSeq(cB.a, 1, Len(cA.a)), <<SP>>,
                                              ansiRed, ansiGreen, "ascending").expected

\* the empty expected array against an actual array of one element
C6_Witness ==
  /\ cpc = "done"
  /\ cfn = "slices"
  /\ cA = Arr(<<>>)
  /\ cB = Arr(<<Str(sVary)>>)
  /\ cExpected = <<>>
  /\ cActual = EntryPrefix(0) \o ansiGreen \o <<QUOTE>> \o sVary \o <<QUOTE>> \o ansiReset \o <<NL>>

(* Claims on compareAndColorizeMaps and compare *)

\* the number of entries of a key in a text of compareAndColorizeMaps(a, b, " ", ...):
\* the lines that begin with the indent of the entries and the quoted key
EntriesOf(text, key) ==
  Occurrences(StripAnsi(text), <<NL, SP, SP, SP, QUOTE>> \o key \o <<QUOTE, ":">>)

\* the entry of a key that only one map has: the key coloured, and the whole
\* serialized value coloured
OneSidedEntry(key, value, colour) ==
  keyValueLine(<<SP, SP, SP>>, Sprint(colour, key), Sprint(colour, MarshalIndent(value)))

\* the same entry with the value left uncoloured
OneSidedEntryPlainValue(key, value, colour) ==
  keyValueLine(<<SP, SP, SP>>, Sprint(colour, key), MarshalIndent(value))

\* C18 as stated: a key that only a has is written exactly once to the
\* expected text, the key and its whole serialized value coloured as removed,
\* and not at all to the actual text; a key that only b has is written exactly
\* once to the actual text, coloured as added, and not at all to the expected
\* text; a key of both maps has exactly one entry in each text.
C18_OneSidedKeysWhollyColoured ==
  (cpc = "done" /\ cfn = "maps") =>
    /\ \A key \in MapKeys(cA) \ MapKeys(cB) :
         /\ Occurrences(cExpected, OneSidedEntry(key, cA.m[key], ansiRed)) = 1
         /\ EntriesOf(cExpected, key) = 1
         /\ EntriesOf(cActual, key) = 0
    /\ \A key \in MapKeys(cB) \ MapKeys(cA) :
         /\ Occurrences(cActual, OneSidedEntry(key, cB.m[key], ansiGreen)) = 1
         /\ EntriesOf(cActual, key) = 1
         /\ EntriesOf(cExpected, key) = 0
    /\ \A key \in MapKeys(cA) \cap MapKeys(cB) :
         EntriesOf(cExpected, key) = 1 /\ EntriesOf(cActual, key) = 1

\* the entry writeKeyValuePair makes of a key that only one map has: the
\* value is coloured unless it is the empty string
OneSidedEntryWritten(key, value, colour) ==
  IF value = Str(<<>>) THEN OneSidedEntryPlainValue(key, value, colour)
  ELSE OneSidedEntry(key, value, colour)

\* C18, amended: as C18, but the value of a key that only one map has is
\* coloured unless it is the empty string, which is written uncoloured next
\* to its coloured key.
C18_OneSidedKeysColouredUnlessEmpty ==
  (cpc = "done" /\ cfn = "maps") =>
    /\ \A key \in MapKeys(cA) \ MapKeys(cB) :
         /\ Occurrences(cExpected, OneSidedEntryWritten(key, cA.m[key], ansiRed)) = 1
         /\ EntriesOf(cExpected, key) = 1
         /\ EntriesOf(cActual, key) = 0
    /\ \A key \in MapKeys(cB) \ MapKeys(cA) :
         /\ Occurrences(cActual, OneSidedEntryWritten(key, cB.m[key], ansiGreen)) = 1
         /\ EntriesOf(cActual, key) = 1
         /\ EntriesOf(cExpected, key) = 0
    /\ \A key \in MapKeys(cA) \cap MapKeys(cB) :
         EntriesOf(cExpected, key) = 1 /\ EntriesOf(cActual, key) = 1

\* the key name with the empty string on the expected side only, the key id
\* with a mapping on the actual side only
C18_Witness ==
  /\ cpc = "done"
  /\ cfn = "maps"
  /\ cA = OneKey(kName, Str(<<>>))
  /\ cB = OneKey(kId, OneKey(kId, Num(1)))
  /\ Contains(cExpected, Sprint(ansiRed, kName) \o <<QUOTE, ":", SP, QUOTE, QUOTE, ",", NL>>)
  /\ Contains(cActual, Sprint(ansiGreen, kId) \o <<QUOTE, ":", SP>> \o ansiGreen \o <<"{", NL>>)

\* the JSON type of a value: mapping, sequence, string, number, boolean or null
JSONType(v) == IF isMap(v) THEN "map" ELSE v.t

\* the keys of both maps whose two values have different JSON types
MismatchedKeys == {key \in MapKeys(cA) \cap MapKeys(cB) : JSONType(cA.m[key]) # JSONType(cB.m[key])}

\* the entry of a key of both maps with its whole serialized value coloured
\* as one stretch; the key itself is written plain
WhollyColouredEntry(key, value, colour) ==
  keyValueLine(<<SP, SP, SP>>, key, Sprint(colour, MarshalIndent(value)))

\* C19: when the two values of a key have different JSON types, in either
\* order, each side is written as one key/value pair whose whole value is
\* coloured as one stretch, red on the expected side and green on the actual
\* side, and no word of a value is coloured on its own.
C19_TypeMismatchWhollyColoured ==
  (cpc = "done" /\ cfn = "maps") =>
    \A key \in MismatchedKeys :
      /\ Contains(cExpected, WhollyColouredEntry(key, cA.m[key], ansiRed))
      /\ Contains(cActual, WhollyColouredEntry(key, cB.m[key], ansiGreen))

-----------------------------------------------------------------------------
(* tidwall/gjson v1.17.1 as calculateJSONDiffs uses it: ParseBytes, ForEach, *)
(* Get, Exists and String.  gjson does not validate; positions are 1-based.  *)
(* The only escape of the modelled texts is \n: no quote is escaped.          *)

\* c <= ' '
isSpaceByte(c) == c \in {SP, NL, TAB, ESC}

LowerLetters ==
  {"a", "b", "c", "d", "e", "f", "g", "h", "i", "j", "k", "l", "m", "n", "o", "p", "q", "r",
   "s", "t", "u", "v", "w", "x", "y", "z"}

\* the first position from i on whose character is in stops; Len(json) + 1 if none
RECURSIVE FirstIn(_, _, _)
FirstIn(json, i, stops) ==
  IF i > Len(json) THEN Len(json) + 1
  ELSE IF json[i] \in stops THEN i
  ELSE FirstIn(json, i + 1, stops)

\* the first position from i on whose character is not in skipped
RECURSIVE FirstNotIn(_, _, _)
FirstNotIn(json, i, skipped) ==
  IF i > Len(json) THEN Len(json) + 1
  ELSE IF json[i] \notin skipped THEN i
  ELSE FirstNotIn(json, i + 1, skipped)

\* json[i:]
From(json, i) == SubSeq(json, i, Len(json))

\* a gjson.Result
Result(type, raw, str, num) == [Type |-> type, Raw |-> raw, Str |-> str, Num |-> num]

\* Result{}
NoResult == Result("Null", <<>>, <<>>, 0)

\* Result.Exists
Exists(t) == t.Type # "Null" \/ Len(t.Raw) # 0

\* Result.String; a number made of digits is its raw text, the key of an array
\* element (no raw text) is its index
String(t) ==
  CASE t.Type = "False" -> <<"f", "a", "l", "s", "e">>
    [] t.Type = "True" -> <<"t", "r", "u", "e">>
    [] t.Type = "Number" -> IF Len(t.Raw) = 0 THEN Itoa(t.Num) ELSE t.Raw
    [] t.Type = "String" -> t.Str
    [] t.Type = "JSON" -> t.Raw
    [] OTHER -> <<>>

\* unescape: the text of a string with its escapes replaced; \n is a line break
RECURSIVE unescape(_)
unescape(str) ==
  IF str = <<>> THEN <<>>
  ELSE IF str[1] = BS /\ Len(str) > 1 /\ str[2] = "n"
    THEN <<NL>> \o unescape(SubSeq(str, 3, Len(str)))
  ELSE <<str[1]>> \o unescape(Tail(str))

\* parseString(json, i): i follows the opening quote; val holds both quotes
parseStringAt(json, i, q) ==
  IF q <= Len(json)
    THEN [i |-> q + 1, val |-> SubSeq(json, i - 1, q), ok |-> TRUE]
    ELSE [i |-> Len(json) + 1, val |-> From(json, i - 1), ok |-> FALSE]

parseString(json, i) == parseStringAt(json, i, FirstIn(json, i, {QUOTE}))

\* the loop of parseSquash: the position after the bracket that closes the
\* one at depth 1, Len(json) + 1 if the text ends before
RECURSIVE squashEnd(_, _, _)
squashEnd(json, i, depth) ==
  IF i > Len(json) THEN Len(json) + 1
  ELSE IF json[i] = QUOTE THEN squashEnd(json, FirstIn(json, i + 1, {QUOTE}) + 1, depth)
  ELSE IF json[i] \in {"{", "[", "("} THEN squashEnd(json, i + 1, depth + 1)
  ELSE IF json[i] \in {"}", "]", ")"}
    THEN IF depth = 1 THEN i + 1 ELSE squashEnd(json, i + 1, depth - 1)
  ELSE squashEnd(json, i + 1, depth)

\* the value that ends before position e
squashed(json, i, e) == [i |-> e, val |-> SubSeq(json, i, e - 1)]

parseSquash(json, i) == squashed(json, i, squashEnd(json, i + 1, 1))

parseNumber(json, i) ==
  squashed(json, i, FirstIn(json, i + 1, {SP, NL, TAB, ESC, ",", "]", "}"}))

parseLiteral(json, i) == squashed(json, i, FirstNotIn(json, i + 1, LowerLetters))

\* the results parseAny builds from what the scanners return
anyJSON(r) == [i |-> r.i, value |-> Result("JSON", r.val, <<>>, 0), ok |-> TRUE]

anyString(r) ==
  IF r.ok
    THEN [i |-> r.i,
          value |-> Result("String", r.val, unescape(SubSeq(r.val, 2, Len(r.val) - 1)), 0),
          ok |-> TRUE]
    ELSE [i |-> r.i, value |-> NoResult, ok |-> FALSE]

anyLiteral(r, vc) ==
  [i |-> r.i,
   value |-> Result(IF vc = "t" THEN "True" ELSE IF vc = "f" THEN "False" ELSE "Null",
                    r.val, <<>>, 0),
   ok |-> TRUE]

anyNumber(r) == [i |-> r.i, value |-> Result("Number", r.val, <<>>, 0), ok |-> TRUE]

\* parseAny(json, i, true): the next value from position i on; a character that
\* starts no value is skipped
RECURSIVE parseAny(_, _)
parseAny(json, i) ==
  IF i > Len(json) THEN [i |-> i, value |-> NoResult, ok |-> FALSE]
  ELSE IF json[i] \in {"{", "["} THEN anyJSON(parseSquash(json, i))
  ELSE IF json[i] = QUOTE THEN anyString(parseString(json, i + 1))
  ELSE IF json[i] = "n" /\ i + 1 <= Len(json) /\ json[i + 1] # "u"
    THEN anyNumber(parseNumber(json, i))
  ELSE IF json[i] \in {"n", "t", "f"} THEN anyLiteral(parseLiteral(json, i), json[i])
  ELSE IF json[i] \in DigitSet \cup {"+", "-", "I", "i", "N"}
    THEN anyNumber(parseNumber(json, i))
  ELSE parseAny(json, i + 1)

\* gjson.Parse: the first character that is not a space decides
Parse(json) ==
  LET i == FirstNotIn(json, 1, {SP, NL, TAB, ESC})
  IN IF i > Len(json) THEN NoResult
     ELSE IF json[i] \in {"{", "["} THEN Result("JSON", From(json, i), <<>>, 0)
     ELSE IF json[i] \in DigitSet \cup {"+", "-", "I", "i", "N"}
       THEN anyNumber(parseNumber(From(json, i), 1)).value
     ELSE IF json[i] = "n" /\ i + 1 <= Len(json) /\ json[i + 1] # "u"
       THEN anyNumber(parseNumber(From(json, i), 1)).value
     ELSE IF json[i] \in {"n", "t", "f"}
       THEN anyLiteral(parseLiteral(From(json, i), 1), json[i]).value
     ELSE IF json[i] = QUOTE
       THEN LET r == parseString(json, i + 1)
            IN Result("String", r.val,
                      unescape(IF r.ok THEN SubSeq(r.val, 2, Len(r.val) - 1) ELSE Tail(r.val)),
                      0)
     ELSE NoResult

\* the key of an object member as ForEach passes it
keyResult(r) == Result("String", r.val, unescape(SubSeq(r.val, 2, Len(r.val) - 1)), 0)

\* the loop of Result.ForEach from position i on: the pairs (key, value) passed
\* to the iterator; idx is the index of the next array element
RECURSIVE forEachFrom(_, _, _, _)
forEachValue(json, obj, idx, key, r) ==
  IF ~r.ok THEN <<>>
  ELSE <<[key |-> key, value |-> r.value]>> \o forEachFrom(json, r.i + 1, obj, idx + 1)

forEachKey(json, obj, idx, k) ==
  IF ~k.ok THEN <<>>
  ELSE forEachValue(json, obj, idx, keyResult(k),
                    parseAny(json, FirstNotIn(json, k.i, {SP, NL, TAB, ESC, ",", ":"})))

forEachFrom(json, i, obj, idx) ==
  IF i > Len(json) THEN <<>>
  ELSE IF obj THEN
    IF json[i] # QUOTE THEN forEachFrom(json, i + 1, obj, idx)
    ELSE forEachKey(json, obj, idx, parseString(json, i + 1))
  ELSE forEachValue(json, obj, idx, Result("Number", <<>>, <<>>, idx),
                    parseAny(json, FirstNotIn(json, i, {SP, NL, TAB, ESC, ",", ":"})))

\* Result.ForEach: the sequence of pairs the iterator is called with
ForEach(t) ==
  IF ~Exists(t) THEN <<>>
  ELSE IF t.Type # "JSON" THEN <<[key |-> NoResult, value |-> t]>>
  ELSE LET i == FirstNotIn(t.Raw, 1, {SP, NL, TAB, ESC})
       IN IF i > Len(t.Raw) THEN <<>>
          ELSE IF t.Raw[i] = "{" THEN forEachFrom(t.Raw, i + 1, TRUE, 0)
          ELSE IF t.Raw[i] = "[" THEN forEachFrom(t.Raw, i + 1, FALSE, 0)
          ELSE <<>>

\* parseObjectPath and parseArrayPath: the part before the first dot, whether
\* more follows, and the rest; the paths hold no wildcard, pipe or escape
PathDot(path) == FirstIn(path, 1, {"."})
PathPart(path) == SubSeq(path, 1, PathDot(path) - 1)
PathMore(path) == PathDot(path) <= Len(path)
PathRest(path) == From(path, PathDot(path) + 1)

\* parseUint of a path part: the index it names, -1 if it is not a number
RECURSIVE parseUint(_, _)
parseUint(part, acc) ==
  IF part = <<>> THEN acc
  ELSE IF part[1] \notin DigitSet THEN -1
  ELSE parseUint(Tail(part), 10 * acc + (Rank(part[1]) - Rank("0")))

PartIndex(part) == IF part = <<>> THEN -1 ELSE parseUint(part, 0)

\* parseObject(c, i, path) and parseArray(c, i, path): value is the result
\* found (NoResult if none), i the position reached
RECURSIVE parseObject(_, _, _)
RECURSIVE parseArray(_, _, _)

\* what follows the value r of a member whose key did not hit
objectNext(json, path, r) ==
  IF ~r.ok THEN [i |-> r.i, value |-> NoResult] ELSE parseObject(json, r.i, path)

\* the value of a member whose key matched the part and whose path goes on:
\* nested is the result of the search in the member's value, which ends before
\* the position after
objectDescend(json, path, nested, after) ==
  IF Exists(nested.value) THEN nested ELSE parseObject(json, after, path)

\* the value of the member with the key k
objectMember(json, path, k, v) ==
  IF ~k.ok THEN [i |-> k.i, value |-> NoResult]
  ELSE IF v > Len(json) THEN [i |-> v, value |-> NoResult]
  ELSE IF SubSeq(k.val, 2, Len(k.val) - 1) = PathPart(path) THEN
    IF ~PathMore(path) THEN
      LET r == parseAny(json, v)
      IN IF r.ok THEN [i |-> r.i, value |-> r.value] ELSE [i |-> r.i, value |-> NoResult]
    ELSE IF json[v] = "{"
      THEN objectDescend(json, path, parseObject(json, v + 1, PathRest(path)),
                         parseSquash(json, v).i)
    ELSE IF json[v] = "["
      THEN objectDescend(json, path, parseArray(json, v + 1, PathRest(path)),
                         parseSquash(json, v).i)
    ELSE objectNext(json, path, parseAny(json, v))
  ELSE objectNext(json, path, parseAny(json, v))

parseObject(json, i, path) ==
  LET q == FirstIn(json, i, {QUOTE, "}"})
  IN IF q > Len(json) THEN [i |-> q, value |-> NoResult]
     ELSE IF json[q] = "}" THEN [i |-> q + 1, value |-> NoResult]
     ELSE objectMember(json, path, parseString(json, q + 1),
                       FirstIn(json, parseString(json, q + 1).i,
                               {QUOTE, "{", "[", "n", "t", "f", "+", "-", "I", "i", "N"}
                                 \cup DigitSet))

\* the element of index h; the elements are read as ForEach reads them
arrayElement(json, i, path, elems) ==
  IF PartIndex(PathPart(path)) < 0 \/ PartIndex(PathPart(path)) >= Len(elems)
    THEN [i |-> Len(json) + 1, value |-> NoResult]
  ELSE IF ~PathMore(path)
    THEN [i |-> Len(json) + 1, value |-> elems[PartIndex(PathPart(path)) + 1].value]
  ELSE IF elems[PartIndex(PathPart(path)) + 1].value.Type # "JSON"
    THEN [i |-> Len(json) + 1, value |-> NoResult]
  ELSE IF elems[PartIndex(PathPart(path)) + 1].value.Raw[1] = "{"
    THEN [i |-> Len(json) + 1,
          value |-> parseObject(elems[PartIndex(PathPart(path)) + 1].value.Raw, 2,
                                PathRest(path)).value]
  ELSE [i |-> Len(json) + 1,
        value |-> parseArray(elems[PartIndex(PathPart(path)) + 1].value.Raw, 2,
                             PathRest(path)).value]

parseArray(json, i, path) == arrayElement(json, i, path, forEachFrom(json, i, FALSE, 0))

\* Result.Get(path): the first brace or bracket of the raw text starts the search
Get(t, path) ==
  LET i == FirstIn(t.Raw, 1, {"{", "["})
  IN IF i > Len(t.Raw) THEN NoResult
     ELSE IF t.Raw[i] = "{" THEN parseObject(t.Raw, i + 1, path).value
     ELSE parseArray(t.Raw, i + 1, path).value
-----------------------------------------------------------------------------
(* encoding/json: Unmarshal into a map[string]interface{} or a              *)
(* []interface{}.  Unmarshal validates the whole text first.  The numbers   *)
(* of the modelled texts are whole and not negative; a text with another    *)
(* number is outside the model and is rejected.                             *)

\* the result of reading a value: ok, the value, the position after it
Read(v, i) == [ok |-> TRUE, v |-> v, i |-> i]
NoRead == [ok |-> FALSE, v |-> Nil, i |-> 0]

\* the white space of JSON
skipSpace(s, i) == FirstNotIn(s, i, {SP, NL, TAB})

\* a string: no character below ' ' before the closing quote; unquote replaces
\* the escape \n as unescape does
readString(s, i) ==
  LET q == FirstIn(s, i + 1, {QUOTE, NL, TAB, ESC})
  IN IF q > Len(s) \/ s[q] # QUOTE THEN NoRead
     ELSE Read(Str(unescape(SubSeq(s, i + 1, q - 1))), q + 1)

\* the value of a text of digits
RECURSIVE Atoi(_, _)
Atoi(digits, acc) ==
  IF digits = <<>> THEN acc ELSE Atoi(Tail(digits), 10 * acc + (Rank(digits[1]) - Rank("0")))

\* a whole number without a leading zero
readNumber(s, i) ==
  LET e == FirstNotIn(s, i, DigitSet)
  IN IF s[i] = "0" /\ e > i + 1 THEN NoRead
     ELSE IF e <= Len(s) /\ s[e] \in {".", "e", "E"} THEN NoRead
     ELSE Read(Num(Atoi(SubSeq(s, i, e - 1), 0)), e)

readLiteral(s, i, text, v) == IF OccursAt(s, text, i) THEN Read(v, i + Len(text)) ELSE NoRead

\* m[k] = v
Store(m, k, v) == [key \in DOMAIN m \cup {k} |-> IF key = k THEN v ELSE m[key]]

RECURSIVE readValue(_, _)
RECURSIVE readElements(_, _, _)
RECURSIVE readMembers(_, _, _)

\* after the element r of an array: a comma and the next element, or the end
afterElement(s, r, acc, j) ==
  IF j > Len(s) THEN NoRead
  ELSE IF s[j] = "," THEN readElements(s, skipSpace(s, j + 1), Append(acc, r.v))
  ELSE IF s[j] = "]" THEN Read(Arr(Append(acc, r.v)), j + 1)
  ELSE NoRead

readElement(s, r, acc) == IF ~r.ok THEN NoRead ELSE afterElement(s, r, acc, skipSpace(s, r.i))

readElements(s, i, acc) == readElement(s, readValue(s, i), acc)

\* after the member k: r of an object; a later member of the same key replaces it
afterMember(s, k, r, m, j) ==
  IF j > Len(s) THEN NoRead
  ELSE IF s[j] = "," THEN readMembers(s, skipSpace(s, j + 1), Store(m, k.v.s, r.v))
  ELSE IF s[j] = "}" THEN Read(Map(Store(m, k.v.s, r.v)), j + 1)
  ELSE NoRead

readMemberValue(s, k, r, m) ==
  IF ~r.ok THEN NoRead ELSE afterMember(s, k, r, m, skipSpace(s, r.i))

readMemberColon(s, k, m, j) ==
  IF j > Len(s) \/ s[j] # ":" THEN NoRead ELSE readMemberValue(s, k, readValue(s, j + 1), m)

readMember(s, k, m) == IF ~k.ok THEN NoRead ELSE readMemberColon(s, k, m, skipSpace(s, k.i))

readMembers(s, i, m) ==
  IF i > Len(s) \/ s[i] # QUOTE THEN NoRead ELSE readMember(s, readString(s, i), m)

readOpen(s, j, k) ==
  IF k > Len(s) THEN NoRead
  ELSE IF s[j] = "{"
    THEN IF s[k] = "}" THEN Read(Map(<<>>), k + 1) ELSE readMembers(s, k, <<>>)
  ELSE IF s[k] = "]" THEN Read(Arr(<<>>), k + 1) ELSE readElements(s, k, <<>>)

readAt(s, j) ==
  IF j > Len(s) THEN NoRead
  ELSE IF s[j] \in {"{", "["} THEN readOpen(s, j, skipSpace(s, j + 1))
  ELSE IF s[j] = QUOTE THEN readString(s, j)
  ELSE IF s[j] \in DigitSet THEN readNumber(s, j)
  ELSE IF s[j] = "t" THEN readLiteral(s, j, <<"t", "r", "u", "e">>, Bool(TRUE))
  ELSE IF s[j] = "f" THEN readLiteral(s, j, <<"f", "a", "l", "s", "e">>, Bool(FALSE))
  ELSE IF s[j] = "n" THEN readLiteral(s, j, <<"n", "u", "l", "l">>, Nil)
  ELSE NoRead

readValue(s, i) == readAt(s, skipSpace(s, i))

\* the whole text is one value
readWhole(s, r) == IF r.ok /\ skipSpace(s, r.i) > Len(s) THEN r ELSE NoRead

\* the value of a well-formed JSON text
Decode(s) == readWhole(s, readValue(s, 1))

\* json.Unmarshal(data, &m) for var m map[string]interface{}: err == nil for an
\* object and for null, which leaves the nil map
unmarshalMap(r) ==
  IF r.ok /\ r.v.t = "map" THEN [ok |-> TRUE, v |-> r.v]
  ELSE IF r.ok /\ r.v.t = "nil" THEN [ok |-> TRUE, v |-> NilMap]
  ELSE [ok |-> FALSE, v |-> NilMap]

UnmarshalMap(data) == unmarshalMap(Decode(data))

\* json.Unmarshal(data, &a) for var a []interface{}: the elements; err == nil
\* for an array and for null, which leaves the nil slice
unmarshalSlice(r) ==
  IF r.ok /\ r.v.t = "arr" THEN [ok |-> TRUE, a |-> r.v.a]
  ELSE IF r.ok /\ r.v.t = "nil" THEN [ok |-> TRUE, a |-> <<>>]
  ELSE [ok |-> FALSE, a |-> <<>>]

UnmarshalSlice(data) == unmarshalSlice(Decode(data))
-----------------------------------------------------------------------------
(* More of Go's strings package *)

\* the last position up to i whose character is not in skipped; 0 if none
RECURSIVE LastNotIn(_, _, _)
LastNotIn(s, i, skipped) ==
  IF i < 1 THEN 0
  ELSE IF s[i] \notin skipped THEN i
  ELSE LastNotIn(s, i - 1, skipped)

\* strings.Trim(s, cutset)
Trim(s, cutset) == SubSeq(s, FirstNotIn(s, 1, cutset), LastNotIn(s, Len(s), cutset))

\* strings.TrimSpace(s)
TrimSpace(s) == Trim(s, {SP, NL, TAB})

\* strings.SplitN(s, sep, 2) for a one-character separator
SplitN2At(s, i) ==
  IF i > Len(s) THEN <<s>> ELSE <<SubSeq(s, 1, i - 1), SubSeq(s, i + 1, Len(s))>>

SplitN2(s, sep) == SplitN2At(s, FirstIn(s, 1, {sep}))

\* the first position at which old occurs in s from i on; 0 if none
RECURSIVE IndexFrom(_, _, _)
IndexFrom(s, old, i) ==
  IF i + Len(old) - 1 > Len(s) THEN 0
  ELSE IF OccursAt(s, old, i) THEN i
  ELSE IndexFrom(s, old, i + 1)

\* strings.Replace(s, old, "", 1)
RemoveAt(s, old, i) ==
  IF i = 0 THEN s ELSE SubSeq(s, 1, i - 1) \o SubSeq(s, i + Len(old), Len(s))

RemoveFirst(s, old) == IF old = <<>> THEN s ELSE RemoveAt(s, old, IndexFrom(s, old, 1))

-----------------------------------------------------------------------------
(* calculateJSONDiffs, extractKey, checkKeyInMaps *)

\* fmt.Sprintf("- \"%s\": %v", key, value) and its '+' counterpart
diffLine(sign, key, value) ==
  <<sign, SP, QUOTE>> \o String(key) \o <<QUOTE, ":", SP>> \o String(value)

\* the first loop of calculateJSONDiffs
diffFirst(result2, diffStrings, item, value2) ==
  IF ~Exists(value2) THEN Append(diffStrings, diffLine("-", item.key, item.value))
  ELSE IF String(item.value) # String(value2)
    THEN diffStrings \o <<diffLine("-", item.key, item.value), diffLine("+", item.key, value2)>>
  ELSE diffStrings

\* the second loop of calculateJSONDiffs
diffSecond(result1, diffStrings, item) ==
  IF ~Exists(Get(result1, String(item.key)))
    THEN Append(diffStrings, diffLine("+", item.key, item.value))
    ELSE diffStrings

diffsOf(result1, result2) ==
  LET first(diffStrings, item) ==
        diffFirst(result2, diffStrings, item, Get(result2, String(item.key)))
      second(diffStrings, item) == diffSecond(result1, diffStrings, item)
  IN Join(FoldLeft(second, FoldLeft(first, <<>>, ForEach(result1)), ForEach(result2)), <<NL>>)

\* calculateJSONDiffs: the diff string; the error it returns is always nil
calculateJSONDiffs(json1, json2) == diffsOf(Parse(json1), Parse(json2))

\* the key of one line of the diff string, after str[1:] and TrimSpace
extractKeyOf(str, colonIndex) ==
  IF colonIndex > Len(str) THEN <<>>
  ELSE <<Trim(TrimSpace(SubSeq(str, 1, colonIndex - 1)), {QUOTE, "'"})>>

\* extractKey: the keys joined by '|'; str[1:] panics on an empty line
extractKey(diffString) ==
  LET step(st, str) ==
        IF str = <<>> THEN [st EXCEPT !.panic = TRUE]
        ELSE [st EXCEPT !.keys = @ \o extractKeyOf(TrimSpace(Tail(str)),
                                                    FirstIn(TrimSpace(Tail(str)), 1, {":"}))]
      joined(st) == [panic |-> st.panic, keys |-> Join(st.keys, <<"|">>)]
  IN joined(FoldLeft(step, [panic |-> FALSE, keys |-> <<>>], Split(diffString, NL)))

\* checkKeyInMaps: the results it can return; the range over map1 yields the
\* keys in an unspecified order, so any key that passes the tests can be the
\* one returned; fmt.Sprintf("%v:%v", k, v1)
checkKeyInMapsOf(map1, map2, key) ==
  IF ~map1.ok \/ ~map2.ok THEN {[text |-> <<>>, exists |-> FALSE]}
  ELSE LET found == {k \in MapKeys(map1.v) :
                       /\ k \in MapKeys(map2.v)
                       /\ ~Contains(key, k)
                       /\ map1.v.m[k] = map2.v.m[k]}
       IN IF found = {} THEN {[text |-> <<>>, exists |-> FALSE]}
          ELSE {[text |-> k \o <<":">> \o FormatV(map1.v.m[k]), exists |-> TRUE] : k \in found}

checkKeyInMaps(jsonMap1, jsonMap2, key) ==
  checkKeyInMapsOf(UnmarshalMap(jsonMap1), UnmarshalMap(jsonMap2), key)

-----------------------------------------------------------------------------
(* insertEmptyLines, diffIndexRange, separateAndColorize *)

\* insertEmptyLines; lines[i+1][0] panics when a line that is not empty is
\* followed by an empty one
insertEmptyLines(lines) ==
  LET step(st, i) ==
        IF i < Len(lines) - 1 /\ lines[i + 1] # <<>> THEN
          IF lines[i + 2] = <<>> THEN [st EXCEPT !.panic = TRUE]
          ELSE IF lines[i + 1][1] = lines[i + 2][1]
            THEN [st EXCEPT !.result = @ \o <<lines[i + 1], <<>> >>]
          ELSE [st EXCEPT !.result = Append(@, lines[i + 1])]
        ELSE [st EXCEPT !.result = Append(@, lines[i + 1])]
  IN FoldLeft(step, [panic |-> FALSE, result |-> <<>>], Indices(Len(lines)))

\* diffIndexRange: the ranges of the words of s1 that differ from the word of
\* s2 at the same index
diffIndexRangeWords(words1, words2) ==
  LET step(st, i) ==
        [ranges |-> IF WordAt(words1, i) # WordAt(words2, i)
                      THEN Append(st.ranges,
                                  [Start |-> st.startIndex,
                                   End |-> st.startIndex + Len(WordAt(words1, i)) - 1])
                      ELSE st.ranges,
         startIndex |-> st.startIndex + Len(WordAt(words1, i)) + 1]
  IN FoldLeft(step, [ranges |-> <<>>, startIndex |-> 0],
              Indices(IF Len(words2) > Len(words1) THEN Len(words2) ELSE Len(words1))).ranges

diffIndexRange(s1, s2) == diffIndexRangeWords(Split(s1, SP), Split(s2, SP))

\* The first loop of separateAndColorize works on the record st: the variables
\* the function declares before the loop (expectsMap, actualsMap, expectsArray,
\* actualsArray, isExpectMap, isActualMap, expect, actual, diffStr), the keys
\* of the iteration (expectKey, actualKey), skip for an iteration left by
\* continue, and panic for a run-time panic.

\* key[:len(key)-1] = value in a fresh map; the slice panics on an empty key
actualIsMap(st, actualKey, jsonObj) ==
  IF actualKey = <<>> THEN [st EXCEPT !.panic = TRUE]
  ELSE [st EXCEPT !.isActualMap = TRUE,
                  !.actualsMap = OneKey(SubSeq(actualKey, 1, Len(actualKey) - 1), jsonObj),
                  !.actualKey = actualKey]

actualIsArray(st, actualKey, arrayObj) ==
  IF arrayObj.ok THEN [st EXCEPT !.actualsArray = arrayObj.a, !.actualKey = actualKey]
  ELSE [st EXCEPT !.skip = TRUE]

actualValue(st, actualKey, value, jsonObj) ==
  IF jsonObj.ok THEN actualIsMap(st, actualKey, jsonObj.v)
  ELSE actualIsArray(st, actualKey, UnmarshalSlice(value))

actualKeyValue(st, keyValue) ==
  IF Len(keyValue) = 2
    THEN actualValue(st, TrimSpace(keyValue[1]), TrimSpace(keyValue[2]),
                     UnmarshalMap(TrimSpace(keyValue[2])))
    ELSE st

\* the part of an iteration that reads the next line
pairActual(st, nextLine) ==
  IF Len(nextLine) > 3 THEN actualKeyValue(st, SplitN2(SubSeq(nextLine, 4, Len(nextLine)), ":"))
  ELSE st

expectIsMap(st, expectKey, jsonObj) ==
  IF expectKey = <<>> THEN [st EXCEPT !.panic = TRUE]
  ELSE [st EXCEPT !.isExpectMap = TRUE,
                  !.expectsMap = OneKey(SubSeq(expectKey, 1, Len(expectKey) - 1), jsonObj),
                  !.expectKey = expectKey]

expectIsArray(st, expectKey, arrayObj) ==
  IF arrayObj.ok THEN [st EXCEPT !.expectsArray = arrayObj.a, !.expectKey = expectKey]
  ELSE [st EXCEPT !.skip = TRUE]

expectValue(st, expectKey, value, jsonObj) ==
  IF jsonObj.ok THEN expectIsMap(st, expectKey, jsonObj.v)
  ELSE expectIsArray(st, expectKey, UnmarshalSlice(value))

expectKeyValue(st, keyValue) ==
  IF Len(keyValue) = 2
    THEN expectValue(st, TrimSpace(keyValue[1]), TrimSpace(keyValue[2]),
                     UnmarshalMap(TrimSpace(keyValue[2])))
    ELSE st

\* the part of an iteration that reads the current line; line[3:] panics on a
\* line of fewer than three characters
pairExpect(st, line) ==
  IF st.skip \/ st.panic THEN st
  ELSE IF Len(line) < 3 THEN [st EXCEPT !.panic = TRUE]
  ELSE expectKeyValue(st, SplitN2(SubSeq(line, 4, Len(line)), ":"))

\* the end of an iteration that compared: the two texts are appended, the two
\* maps reset and the two lines removed from diffStr (the arrays and the two
\* flags keep their values)
pairAppend(st, line, nextLine, output) ==
  [st EXCEPT !.expect = @ \o breakLines(output.expected) \o <<NL>>,
             !.actual = @ \o breakLines(output.actual) \o <<NL>>,
             !.expectsMap = EmptyGoMap,
             !.actualsMap = EmptyGoMap,
             !.diffStr = RemoveFirst(RemoveFirst(@, line), nextLine)]

pairCompared(st, line, nextLine, text) ==
  pairAppend(st, line, nextLine,
             truncateToMatchWithEllipsis(breakLines(text.expected), breakLines(text.actual)))

\* the texts of an iteration that compares: of the two maps when both flags
\* are set, of the two arrays otherwise
pairText(st, order) ==
  IF st.isExpectMap /\ st.isActualMap
    THEN compareAndColorizeMaps(st.expectsMap, st.actualsMap, <<SP>>, ansiRed, ansiGreen, order)
    ELSE compareAndColorizeSlices(st.expectsArray, st.actualsArray, <<SP>>,
                                  ansiRed, ansiGreen, order)

\* the call the dispatch makes: the function and its two arguments
pairCall(st) ==
  IF st.isExpectMap /\ st.isActualMap
    THEN [fn |-> "compareAndColorizeMaps", a |-> st.expectsMap, b |-> st.actualsMap]
    ELSE [fn |-> "compareAndColorizeSlices", a |-> Arr(st.expectsArray),
          b |-> Arr(st.actualsArray)]

\* a pairing pass that compares no pair and leaves every line to the second loop
pairDispatch_neverCompares(st, line, nextLine, order) == st

\* a pairing pass in which continue does not end the iteration
pairDispatch_ignoresContinue(st, line, nextLine, order) ==
  IF st.panic THEN st
  ELSE IF (st.isExpectMap /\ st.isActualMap) \/ st.actualKey = st.expectKey
    THEN pairCompared([st EXCEPT !.compared = Append(@, pairCall(st))],
                      line, nextLine, pairText(st, order))
  ELSE st

\* the part of an iteration that compares the maps or the arrays
pairDispatch(st, line, nextLine, order) ==
  IF st.skip \/ st.panic THEN st
  ELSE IF (st.isExpectMap /\ st.isActualMap) \/ st.actualKey = st.expectKey
    THEN pairCompared([st EXCEPT !.compared = Append(@, pairCall(st))],
                      line, nextLine, pairText(st, order))
  ELSE st

\* one iteration of the first loop, on the lines i and i+1
pairStep(st, line, nextLine, order) ==
  IF st.panic THEN st
  ELSE IF Len(line) > 0 /\ line[1] = "-"
    THEN pairDispatch(pairExpect(pairActual([st EXCEPT !.expectKey = <<>>, !.actualKey = <<>>,
                                                        !.skip = FALSE],
                                            nextLine),
                                 line),
                      line, nextLine, order)
  ELSE st

\* the variables separateAndColorize declares before its first loop
pairStart(diffStr) ==
  [expectsMap |-> EmptyGoMap, actualsMap |-> EmptyGoMap,
   expectsArray |-> <<>>, actualsArray |-> <<>>,
   isExpectMap |-> FALSE, isActualMap |-> FALSE,
   expect |-> <<>>, actual |-> <<>>, diffStr |-> diffStr,
   expectKey |-> <<>>, actualKey |-> <<>>, skip |-> FALSE, panic |-> FALSE,
   compared |-> <<>>]

\* the first loop from index i on: for i := 0; i < len(lines)-1; i++
RECURSIVE pairLoop(_, _, _, _)
pairLoop(st, lines, i, order) ==
  IF i >= Len(lines) - 1 THEN st
  ELSE pairLoop(pairStep(st, lines[i + 1], lines[i + 2], order), lines, i + 1, order)

\* a line of the second loop that holds a noise key: written once, uncoloured,
\* to the side its sign names
noisedLine(st, line) ==
  IF line[1] = "-"
    THEN [st EXCEPT !.expect = @ \o breakWithColor(<<SP>> \o Tail(line), NilColor, <<>>)]
  ELSE IF line[1] = "+"
    THEN [st EXCEPT !.actual = @ \o breakWithColor(<<SP>> \o Tail(line), NilColor, <<>>)]
  ELSE st

\* the range that covers a whole line
WholeLine(line) == <<[Start |-> 0, End |-> Len(line) - 1]>>

\* one line of the second loop that is not empty; i is its index in diffLines
literalLine(st, diffLines, i, line, noise) ==
  IF \E e \in noise : Contains(line, e) THEN noisedLine(st, line)
  ELSE IF line[1] = "-" THEN
    IF i < Len(diffLines) - 1 /\ Len(line) > 1 /\ diffLines[i + 2] # <<>>
         /\ diffLines[i + 2][1] = "+"
      THEN [st EXCEPT !.expect = @ \o breakWithColor(line, ansiRed,
                                                     diffIndexRange(Tail(line),
                                                                    Tail(diffLines[i + 2])))]
      ELSE [st EXCEPT !.expect = @ \o breakWithColor(line, ansiRed, WholeLine(line))]
  ELSE IF line[1] = "+" THEN
    IF i > 0 /\ Len(line) > 1 /\ diffLines[i] # <<>> /\ diffLines[i][1] = "-"
      THEN [st EXCEPT !.actual = @ \o breakWithColor(line, ansiGreen,
                                                     diffIndexRange(Tail(line),
                                                                    Tail(diffLines[i])))]
      ELSE [st EXCEPT !.actual = @ \o breakWithColor(line, ansiGreen, WholeLine(line))]
  ELSE [st EXCEPT !.expect = @ \o breakWithColor(line, NilColor, <<>>),
                  !.actual = @ \o breakWithColor(line, NilColor, <<>>)]

\* the second loop, over the lines left in diffStr
literalLoop(st, diffLines, noise) ==
  LET step(s, i) ==
        IF Len(diffLines[i + 1]) > 0 THEN literalLine(s, diffLines, i, diffLines[i + 1], noise)
        ELSE s
  IN FoldLeft(step, st, Indices(Len(diffLines)))

\* what separateAndColorize returns
returned(st) ==
  [expect |-> st.expect, actual |-> st.actual, panic |-> st.panic, compared |-> st.compared]

\* separateAndColorize after its first loop
afterPairs(st, noise) ==
  IF st.panic \/ st.diffStr = <<>> THEN returned(st)
  ELSE returned(literalLoop(st, Split(st.diffStr, NL), noise))

afterInsert(inserted, diffStr, noise, order) ==
  IF inserted.panic THEN [expect |-> <<>>, actual |-> <<>>, panic |-> TRUE, compared |-> <<>>]
  ELSE afterPairs(pairLoop(pairStart(diffStr), inserted.result, 0, order), noise)

\* separateAndColorize(diffStr, noise); noise is the set of the keys of the
\* noise map, order the range order of the maps that are compared
separateAndColorize(diffStr, noise, order) ==
  afterInsert(insertEmptyLines(Split(diffStr, NL)), diffStr, noise, order)
-----------------------------------------------------------------------------
(* SprintJSONDiff and its inputs *)

Quoted(s) == <<QUOTE>> \o s \o <<QUOTE>>
Member(key, raw) == Quoted(key) \o <<":">> \o raw
Object(members) == <<"{">> \o Join(members, <<",">>) \o <<"}">>
Array(elems) == <<"[">> \o Join(elems, <<",">>) \o <<"]">>

kPet == <<"p", "e", "t">>
kKey1 == <<"k", "e", "y", "1">>
kKey2 == <<"k", "e", "y", "2">>
kKeyX == <<"k", "e", "y", "X">>
kTags == <<"t", "a", "g", "s">>
kDotted == <<"a", ".", "b">>

\* {"name":"Cat","id":3} and its variants
docCat == Object(<<Member(kName, Quoted(sCat)), Member(kId, <<"3">>)>>)
docDog == Object(<<Member(kName, Quoted(sDog)), Member(kId, <<"3">>)>>)
docCat4 == Object(<<Member(kName, Quoted(sCat)), Member(kId, <<"4">>)>>)
\* {"pet":{"name":"Cat","id":3}} and its variant
docPetCat == Object(<<Member(kPet, docCat)>>)
docPetDog == Object(<<Member(kPet, docDog)>>)
\* {"r":{"x":1},"s":[1]} and {"t":{"y":1}}
docRS ==
  Object(<<Member(<<"r">>, Object(<<Member(kX, <<"1">>)>>)),
           Member(<<"s">>, Array(<< <<"1">> >>))>>)
docT == Object(<<Member(<<"t">>, Object(<<Member(<<"y">>, <<"1">>)>>))>>)
\* {"key1":["a","b","c"],"key2":"v"} and {"key1":["a","b","d"],"keyX":"v"}
docKeysC ==
  Object(<<Member(kKey1, Array(<<Quoted(<<"a">>), Quoted(<<"b">>), Quoted(<<"c">>)>>)),
           Member(kKey2, Quoted(<<"v">>))>>)
docKeysD ==
  Object(<<Member(kKey1, Array(<<Quoted(<<"a">>), Quoted(<<"b">>), Quoted(<<"d">>)>>)),
           Member(kKeyX, Quoted(<<"v">>))>>)
\* {"tags":[]} and {"tags":["Vary"]}
docTagsNone == Object(<<Member(kTags, Array(<<>>))>>)
docTagsVary == Object(<<Member(kTags, Array(<<Quoted(sVary)>>))>>)
\* {"a.b":1}, {}, [1,2] and 5
docDotted == Object(<<Member(kDotted, <<"1">>)>>)
docEmpty == Object(<<>>)
\* {"a":{"b":2}}
docNested == Object(<<Member(<<"a">>, Object(<<Member(<<"b">>, <<"2">>)>>))>>)
docArray == Array(<< <<"1">>, <<"2">> >>)
docFive == <<"5">>
\* {"id":3,"idx":1} and {"id":3,"idx":2}
kIdx == <<"i", "d", "x">>
docIdx1 == Object(<<Member(kId, <<"3">>), Member(kIdx, <<"1">>)>>)
docIdx2 == Object(<<Member(kId, <<"3">>), Member(kIdx, <<"2">>)>>)
\* {"name":"a\n\nb"} and {"name":"a\n-b","id":4}: string values with line breaks
docBreaks == Object(<<Member(kName, Quoted(<<"a", BS, "n", BS, "n", "b">>))>>)
docShort ==
  Object(<<Member(kName, Quoted(<<"a", BS, "n", "-", "b">>)), Member(kId, <<"4">>)>>)
\* {" r":{"x":1}} and {" r":{"x":2}}: a key that begins with a space
kSpaced == <<SP, "r">>
docSpaced1 == Object(<<Member(kSpaced, Object(<<Member(kX, <<"1">>)>>))>>)
docSpaced2 == Object(<<Member(kSpaced, Object(<<Member(kX, <<"2">>)>>))>>)
\* {"pet":{"id":3,"name":"Cat"}} and {"tags":[ "Vary"]}: docPetCat with the keys
\* of the nested object in another order, docTagsVary with a space in the array
docPetSwapped ==
  Object(<<Member(kPet, Object(<<Member(kId, <<"3">>), Member(kName, Quoted(sCat))>>))>>)
docTagsSpaced == Object(<<Member(kTags, <<"[", SP>> \o Quoted(sVary) \o <<"]">>)>>)
\* texts that are not JSON: x and {"id":3
docGarbage == <<"x">>
docTruncated == <<"{">> \o Member(kId, <<"3">>)

Documents ==
  {docCat, docDog, docCat4, docPetCat, docPetDog, docRS, docT, docKeysC, docKeysD, docTagsNone,
   docTagsVary, docDotted, docEmpty, docArray, docFive, docIdx1, docIdx2, docNested,
   docBreaks, docShort, docSpaced1, docSpaced2, docPetSwapped, docTagsSpaced, docGarbage,
   docTruncated}

\* the key sets of the noise maps
NoiseSets == {{}, {kKey1}, {kId}}

RangeOrderChoices == {"ascending", "descending"}

\* additionalContext, exists before checkKeyInMaps is called
NoContext == [text |-> <<>>, exists |-> FALSE]

InitJSON ==
  /\ jpc = "idle"
  /\ jJson1 = <<>>
  /\ jJson2 = <<>>
  /\ jNoise = {}
  /\ jDiffString = <<>>
  /\ jContext = NoContext
  /\ jCompared = <<>>
  /\ jErr = "nil"
  /\ jExpect = <<>>
  /\ jActual = <<>>

\* SprintJSONDiff after calculateJSONDiffs returned diffString; additionalContext
\* is a result of checkKeyInMaps
rendered(diffString, additionalContext, noise, order) ==
  separateAndColorize(IF additionalContext.exists
                        THEN additionalContext.text \o <<NL>> \o diffString
                        ELSE diffString,
                      noise, order)

\* SprintJSONDiff(json1, json2, noise): the error is the one calculateJSONDiffs
\* returns, which is nil; a panic ends the call without results
SprintJSONDiffCall ==
  /\ jpc = "idle"
  /\ \E json1 \in Documents, json2 \in Documents, noise \in NoiseSets :
       /\ jJson1' = json1
       /\ jJson2' = json2
       /\ jNoise' = noise
       /\ \E diffString \in {calculateJSONDiffs(json1, json2)} :
            /\ jDiffString' = diffString
            /\ IF diffString = <<>>
                 THEN /\ jContext' = NoContext
                      /\ jCompared' = <<>>
                      /\ jExpect' = <<>>
                      /\ jActual' = <<>>
                      /\ jpc' = "done"
                 ELSE \E modifiedKeys \in {extractKey(diffString)} :
                        IF modifiedKeys.panic
                          THEN /\ jContext' = NoContext
                               /\ jCompared' = <<>>
                               /\ jExpect' = <<>>
                               /\ jActual' = <<>>
                               /\ jpc' = "panic"
                          ELSE \E additionalContext \in checkKeyInMaps(json1, json2,
                                                                       modifiedKeys.keys),
                                  order \in RangeOrderChoices :
                                 \E r \in {rendered(diffString, additionalContext, noise, order)} :
                                   /\ jContext' = additionalContext
                                   /\ jCompared' = r.compared
                                   /\ jExpect' = r.expect
                                   /\ jActual' = r.actual
                                   /\ jpc' = IF r.panic THEN "panic" ELSE "done"
  /\ jErr' = "nil"
  /\ UNCHANGED othersJSON

SprintJSONDiffReturn ==
  /\ jpc \in {"done", "panic"}
  /\ jpc' = "idle"
  /\ jJson1' = <<>>
  /\ jJson2' = <<>>
  /\ jNoise' = {}
  /\ jDiffString' = <<>>
  /\ jContext' = NoContext
  /\ jCompared' = <<>>
  /\ jErr' = "nil"
  /\ jExpect' = <<>>
  /\ jActual' = <<>>
  /\ UNCHANGED othersJSON

NextJSON == SprintJSONDiffCall \/ SprintJSONDiffReturn

-----------------------------------------------------------------------------
(* Claims on SprintJSONDiff *)

\* the text is one JSON value (RFC 8259)
WellFormed(text) == Decode(text).ok

\* the text is a JSON object
IsObject(text) == Decode(text).ok /\ Decode(text).v.t = "map"

\* the keys of a JSON object
TopLevelKeys(text) == DOMAIN Decode(text).v.m

HasEscape(text) == \E k \in 1..Len(text) : text[k] = ESC

\* the key is coloured: as one stretch, or character by character
Painted(text, key, colour) ==
  \/ Contains(text, Sprint(colour, key))
  \/ Contains(text, Join([k \in 1..Len(key) |-> Sprint(colour, <<key[k]>>)], <<>>))

\* C1: the comparison of a well-formed document with a copy of itself returns
\* no error and two renderings that hold no colour escape sequence and are
\* equal to each other.
C1_IdenticalDocumentsRenderAlike ==
  (jpc = "done" /\ jJson1 = jJson2 /\ WellFormed(jJson1)) =>
    /\ jErr = "nil"
    /\ ~HasEscape(jExpect)
    /\ ~HasEscape(jActual)
    /\ jExpect = jActual

\* C2: if one of the two inputs is not well-formed JSON, the call returns an
\* error and two empty renderings.
C2_MalformedInputIsAnError ==
  (jpc = "done" /\ (~WellFormed(jJson1) \/ ~WellFormed(jJson2))) =>
    /\ jErr # "nil"
    /\ jExpect = <<>>
    /\ jActual = <<>>

\* C3: for two well-formed objects, every top-level key of the first that the
\* second lacks appears exactly once, coloured removed, in the expected output,
\* and every top-level key of the second that the first lacks appears exactly
\* once, coloured added, in the actual output (no key is noise).
C3_UnmatchedKeysShownOnce ==
  (jpc = "done" /\ jNoise = {} /\ IsObject(jJson1) /\ IsObject(jJson2)) =>
    /\ \A key \in TopLevelKeys(jJson1) \ TopLevelKeys(jJson2) :
         /\ Occurrences(StripAnsi(jExpect), Quoted(key) \o <<":">>) = 1
         /\ Painted(jExpect, key, ansiRed)
    /\ \A key \in TopLevelKeys(jJson2) \ TopLevelKeys(jJson1) :
         /\ Occurrences(StripAnsi(jActual), Quoted(key) \o <<":">>) = 1
         /\ Painted(jActual, key, ansiGreen)

\* the lines of the diff string whose key is a noise key and whose sign is sign
NoisedLines(sign) ==
  {line \in {Split(jDiffString, NL)[k] : k \in 1..Len(Split(jDiffString, NL))} :
     /\ line # <<>>
     /\ line[1] = sign
     /\ \E key \in jNoise : OccursAt(line, Quoted(key) \o <<":">>, 3)}

\* C4: every diff line of a top-level key that is in the noise set is written
\* without colour and on its own side only: the removed line to the expected
\* output, the added line to the actual output, whatever the two values are.
C4_NoisedKeysUncoloured ==
  jpc = "done" =>
    /\ \A line \in NoisedLines("-") :
         /\ Contains(jExpect, <<SP>> \o Tail(line) \o <<NL>>)
         /\ ~Contains(StripAnsi(jActual), Tail(line))
    /\ \A line \in NoisedLines("+") :
         /\ Contains(jActual, <<SP>> \o Tail(line) \o <<NL>>)
         /\ ~Contains(StripAnsi(jExpect), Tail(line))

-----------------------------------------------------------------------------
(* wrapTextWithAnsi *)

CR == "\r"

UpperLetters ==
  {"A", "B", "C", "D", "E", "F", "G", "H", "I", "J", "K", "L", "M",
   "N", "O", "P", "Q", "R", "S", "T", "U", "V", "W", "X", "Y", "Z"}

\* var ansiRegex, \x1b\[[0-9;]*[a-zA-Z]: the last position of the match that
\* begins at position i of line, 0 when no match begins there
ansiRegex(line, i) ==
  IF line[i] = ESC /\ i < Len(line) /\ line[i + 1] = "["
    THEN LET j == FirstNotIn(line, i + 2, DigitSet \cup {";"})
         IN IF j <= Len(line) /\ line[j] \in LowerLetters \cup UpperLetters THEN j ELSE 0
  ELSE 0

\* ansiRegex.FindAllString(line, -1) from position i on: the matches from left
\* to right, none overlapping another
RECURSIVE FindAllString(_, _)
FindAllString(line, i) ==
  IF i > Len(line) THEN <<>>
  ELSE IF ansiRegex(line, i) > 0
    THEN <<SubSeq(line, i, ansiRegex(line, i))>> \o FindAllString(line, ansiRegex(line, i) + 1)
  ELSE FindAllString(line, i + 1)

\* var ansiResetCode
ansiResetCode == ansiReset

\* strings.HasSuffix(s, suffix)
HasSuffix(s, suffix) == OccursAt(s, suffix, Len(s) - Len(suffix) + 1)

\* strings.HasPrefix(s, prefix)
HasPrefix(s, prefix) == OccursAt(s, prefix, 1)

\* bufio.ScanLines drops one carriage return at the end of a line
dropCR(line) ==
  IF line # <<>> /\ line[Len(line)] = CR THEN SubSeq(line, 1, Len(line) - 1) ELSE line

\* the lines scanner.Scan yields one after the other: the text up to each line
\* break, and the text after the last line break when it is not empty
ScanLines(input) ==
  LET parts == Split(input, NL)
      kept == IF parts[Len(parts)] = <<>> THEN SubSeq(parts, 1, Len(parts) - 1) ELSE parts
  IN [k \in 1..Len(kept) |-> dropCR(kept[k])]

\* an iteration that drops the colour at the end of every line
wrapLine_dropsColour(st, line) ==
  [wrappedBuilder |-> st.wrappedBuilder \o line \o <<NL>>,
   currentAnsiCode |-> <<>>,
   lastAnsiCode |-> st.lastAnsiCode]

\* one iteration of the loop of wrapTextWithAnsi; st holds wrappedBuilder,
\* currentAnsiCode and lastAnsiCode
wrapLine(st, line) ==
  LET startAnsiCodes == FindAllString(line, 1)
      lastAnsiCode == IF Len(startAnsiCodes) > 0 THEN startAnsiCodes[Len(startAnsiCodes)]
                      ELSE st.lastAnsiCode
  IN IF (st.currentAnsiCode # <<>> /\ ~HasSuffix(line, ansiResetCode))
          \/ Len(startAnsiCodes) > 0
       THEN [wrappedBuilder |-> st.wrappedBuilder \o st.currentAnsiCode \o line
                                  \o ansiResetCode \o <<NL>>,
             currentAnsiCode |-> lastAnsiCode,
             lastAnsiCode |-> lastAnsiCode]
       ELSE [wrappedBuilder |-> st.wrappedBuilder \o st.currentAnsiCode \o line \o <<NL>>,
             currentAnsiCode |-> <<>>,
             lastAnsiCode |-> lastAnsiCode]

\* wrapTextWithAnsi(input)
wrapTextWithAnsi(input) ==
  FoldLeft(wrapLine,
           [wrappedBuilder |-> <<>>, currentAnsiCode |-> <<>>, lastAnsiCode |-> <<>>],
           ScanLines(input)).wrappedBuilder

-----------------------------------------------------------------------------
(* Inputs of wrapTextWithAnsi: texts of up to MaxAnsiLines lines, each of one *)
(* of the shapes below, with or without a line break at the end              *)

MaxAnsiLines == 3

ansiBoldRed == <<ESC, "[", "1", ";", "3", "1", "m">>

AnsiLineShapes ==
  {<<>>,
   <<"a">>,
   <<"a", CR>>,
   <<ESC, "a">>,
   ansiRed \o <<"a">>,
   ansiGreen \o <<"a">> \o ansiReset,
   ansiRed \o <<"a">> \o ansiReset \o ansiGreen \o <<"b">>,
   ansiBoldRed \o <<"a">>}

AnsiInputs ==
  UNION {{Join(ls, <<NL>>) \o end : ls \in [1..n -> AnsiLineShapes], end \in {<<>>, <<NL>>}} :
         n \in 0..MaxAnsiLines}

InitAnsi ==
  /\ apc = "idle"
  /\ aInput = <<>>
  /\ aOutput = <<>>

WrapTextWithAnsiCall ==
  /\ apc = "idle"
  /\ \E input \in AnsiInputs :
       /\ aInput' = input
       /\ aOutput' = wrapTextWithAnsi(input)
  /\ apc' = "done"
  /\ UNCHANGED othersAnsi

WrapTextWithAnsiReturn ==
  /\ apc = "done"
  /\ apc' = "idle"
  /\ aInput' = <<>>
  /\ aOutput' = <<>>
  /\ UNCHANGED othersAnsi

NextAnsi == WrapTextWithAnsiCall \/ WrapTextWithAnsiReturn

-----------------------------------------------------------------------------
(* Claims on wrapTextWithAnsi *)

\* the lines of the output: every one is ended by a line break
AnsiOutputLines == SubSeq(Split(aOutput, NL), 1, Len(Split(aOutput, NL)) - 1)

\* the last escape sequence of a line, <<>> when it has none
LastAnsiCode(line) ==
  IF FindAllString(line, 1) = <<>> THEN <<>>
  ELSE FindAllString(line, 1)[Len(FindAllString(line, 1))]

HasAnsiCode(line) == FindAllString(line, 1) # <<>>

\* the last escape sequence of the line is a colour code, not the reset code
LeavesColourOpen(line) == HasAnsiCode(line) /\ LastAnsiCode(line) # ansiResetCode

\* C11: the output has one line for each line read.  Whenever a line leaves a
\* colour open, the output for that line ends with the reset code, and the
\* output for the next line, and for each following line up to the first one
\* that itself holds an escape sequence, begins with that colour code.  Every
\* output line that holds an escape sequence ends with the reset code.
C11_ColourCarriedAcrossLines ==
  apc = "done" =>
    LET lines == ScanLines(aInput)
        out == AnsiOutputLines
    IN /\ Len(out) = Len(lines)
       /\ \A k \in 1..Len(lines) :
            LeavesColourOpen(lines[k]) =>
              /\ HasSuffix(out[k], ansiResetCode)
              /\ \A j \in (k + 1)..Len(lines) :
                   (\A i \in (k + 1)..(j - 1) : ~HasAnsiCode(lines[i])) =>
                     HasPrefix(out[j], LastAnsiCode(lines[k]))
       /\ \A k \in 1..Len(out) : HasAnsiCode(out[k]) => HasSuffix(out[k], ansiResetCode)

\* a text whose first line leaves red open, whose second line holds no escape
\* sequence and whose third line is written with red before it
C11_Witness ==
  /\ apc = "done"
  /\ Len(ScanLines(aInput)) = 3
  /\ ScanLines(aInput)[1] = ansiRed \o <<"a">>
  /\ ScanLines(aInput)[2] = <<"a">>
  /\ HasPrefix(AnsiOutputLines[3], ansiRed)
  /\ HasSuffix(AnsiOutputLines[1], ansiResetCode)

-----------------------------------------------------------------------------
(* Claims on the two passes of separateAndColorize *)

\* the records of the diff string, one on each line
DiffRecords == IF jDiffString = <<>> THEN <<>> ELSE Split(jDiffString, NL)

\* the key text and the value text of a record, as the pairing pass reads them
RecordKey(line) == TrimSpace(SplitN2(SubSeq(line, 4, Len(line)), ":")[1])

RecordValue(line) ==
  IF Len(SplitN2(SubSeq(line, 4, Len(line)), ":")) = 2
    THEN TrimSpace(SplitN2(SubSeq(line, 4, Len(line)), ":")[2])
    ELSE <<>>

ParsesAsMapping(line) == UnmarshalMap(RecordValue(line)).ok

ParsesAsSequence(line) == ~ParsesAsMapping(line) /\ UnmarshalSlice(RecordValue(line)).ok

\* the record is written by the literal line pass: its text, sign and all, is
\* a line of the output (a noise key has its sign replaced by a space)
LiterallyRendered(output, line) ==
  \/ Contains(<<NL>> \o StripAnsi(output), <<NL>> \o line \o <<NL>>)
  \/ Contains(<<NL>> \o StripAnsi(output), <<NL, SP>> \o Tail(line) \o <<NL>>)

\* every line of the diff string is a record: no value holds a line break
EveryLineIsRecord ==
  \A k \in 1..Len(DiffRecords) :
    /\ Len(DiffRecords[k]) > 3
    /\ DiffRecords[k][1] \in {"-", "+"}
    /\ DiffRecords[k][2] = SP
    /\ DiffRecords[k][3] = QUOTE

-----------------------------------------------------------------------------
(* Claims on the context line *)

\* the keys of the records of the diff string: the changed keys
ChangedKeys == {Trim(RecordKey(DiffRecords[k]), {QUOTE}) : k \in 1..Len(DiffRecords)}

\* the top-level keys that both documents hold with the same value and that
\* are not changed keys; none when a document is not an object
ContextKeys ==
  IF IsObject(jJson1) /\ IsObject(jJson2)
    THEN {key \in TopLevelKeys(jJson1) \cap TopLevelKeys(jJson2) :
            /\ Decode(jJson1).v.m[key] = Decode(jJson2).v.m[key]
            /\ key \notin ChangedKeys}
    ELSE {}

\* C13: when the diff is not empty, a context line key:value is prepended if
\* and only if both documents are objects and some top-level key is in both
\* with the same value and is not a changed key; the line names such a key;
\* no error is raised.
C13_ContextLineIffUnchangedKey ==
  (jpc # "idle" /\ jDiffString # <<>>) =>
    /\ jpc = "done"
    /\ jErr = "nil"
    /\ jContext.exists <=> ContextKeys # {}
    /\ jContext.exists =>
         \E key \in ContextKeys :
           jContext.text = key \o <<":">> \o FormatV(Decode(jJson1).v.m[key])

-----------------------------------------------------------------------------
(* Claims on calculateJSONDiffs *)

\* the fields of a document in document order, as ForEach passes them
Fields(json) == ForEach(Parse(json))

\* the rendered text of the value of the field key of an object
RenderedValue(json, key) ==
  String(Fields(json)[CHOOSE k \in 1..Len(Fields(json)) : String(Fields(json)[k].key) = key].value)

\* the positions of the records of one sign for the field key
RecordsOf(sign, key) ==
  {k \in 1..Len(DiffRecords) :
     OccursAt(DiffRecords[k], <<sign, SP>> \o Quoted(key) \o <<":", SP>>, 1)}

RemovedRecord(json, key) == <<"-", SP>> \o Quoted(key) \o <<":", SP>> \o RenderedValue(json, key)

AddedRecord(json, key) == <<"+", SP>> \o Quoted(key) \o <<":", SP>> \o RenderedValue(json, key)

\* C14: for every top-level field of both documents, the diff holds exactly
\* one Removed record immediately followed by exactly one Added record of the
\* key when the rendered texts of the two values differ, and no record of the
\* key when they are equal.
C14_SharedFieldPairedOrSilent ==
  (jpc # "idle" /\ IsObject(jJson1) /\ IsObject(jJson2)) =>
    \A key \in TopLevelKeys(jJson1) \cap TopLevelKeys(jJson2) :
      IF RenderedValue(jJson1, key) # RenderedValue(jJson2, key)
        THEN /\ Cardinality(RecordsOf("-", key)) = 1
             /\ Cardinality(RecordsOf("+", key)) = 1
             /\ \E k \in 1..(Len(DiffRecords) - 1) :
                  /\ DiffRecords[k] = RemovedRecord(jJson1, key)
                  /\ DiffRecords[k + 1] = AddedRecord(jJson2, key)
        ELSE RecordsOf("-", key) = {} /\ RecordsOf("+", key) = {}

\* the position of the field key among the fields of an object
FieldIndex(json, key) ==
  CHOOSE k \in 1..Len(Fields(json)) : String(Fields(json)[k].key) = key

\* C15: a top-level field of the first document only has exactly one Removed
\* record and no Added record; a field of the second document only has exactly
\* one Added record and no Removed record, after every record of a field of
\* the first document; the records of the fields of the first document follow
\* the order of its fields.
C15_OneSidedFieldsOnceInOrder ==
  (jpc # "idle" /\ IsObject(jJson1) /\ IsObject(jJson2)) =>
    /\ \A key \in TopLevelKeys(jJson1) \ TopLevelKeys(jJson2) :
         Cardinality(RecordsOf("-", key)) = 1 /\ RecordsOf("+", key) = {}
    /\ \A key \in TopLevelKeys(jJson2) \ TopLevelKeys(jJson1) :
         /\ Cardinality(RecordsOf("+", key)) = 1 /\ RecordsOf("-", key) = {}
         /\ \A k \in RecordsOf("+", key), key1 \in TopLevelKeys(jJson1) :
              \A j \in RecordsOf("-", key1) \cup RecordsOf("+", key1) : j < k
    /\ \A key1 \in TopLevelKeys(jJson1), key2 \in TopLevelKeys(jJson1) :
         FieldIndex(jJson1, key1) < FieldIndex(jJson1, key2) =>
           \A j \in RecordsOf("-", key1) \cup RecordsOf("+", key1),
              k \in RecordsOf("-", key2) \cup RecordsOf("+", key2) : j < k

\* two records that the pairing pass may compare structurally: the same key,
\* and two mappings or two sequences
SameKeyAndShape(removed, added) ==
  /\ RecordKey(removed) = RecordKey(added)
  /\ \/ ParsesAsMapping(removed) /\ ParsesAsMapping(added)
     \/ ParsesAsSequence(removed) /\ ParsesAsSequence(added)

\* the positions of a Removed record immediately followed by an Added record
AdjacentPairs ==
  {k \in 1..(Len(DiffRecords) - 1) : DiffRecords[k][1] = "-" /\ DiffRecords[k + 1][1] = "+"}

\* C16: a Removed record immediately followed by an Added record is compared
\* structurally only when the two records have the same key and their values
\* are two mappings or two sequences; in every other case the pair is skipped
\* and both records are left to the literal line pass, which writes them.
C16_DispatchOnlySameKeyAndShape ==
  jpc = "done" =>
    \A k \in AdjacentPairs :
      ~SameKeyAndShape(DiffRecords[k], DiffRecords[k + 1]) =>
        /\ LiterallyRendered(jExpect, DiffRecords[k])
        /\ LiterallyRendered(jActual, DiffRecords[k + 1])

\* the value a record holds, as the argument the structural colorizer gets for
\* it: a map of the key to the mapping, or the sequence
RecordArgument(line) ==
  IF ParsesAsMapping(line)
    THEN OneKey(SubSeq(RecordKey(line), 1, Len(RecordKey(line)) - 1),
                UnmarshalMap(RecordValue(line)).v)
    ELSE Arr(UnmarshalSlice(RecordValue(line)).a)

\* the calls of the structural colorizer that render a record: those whose
\* argument of the side of the record is the value of the record
RenderedStructurally(line) ==
  {e \in 1..Len(jCompared) :
     /\ ParsesAsMapping(line) \/ ParsesAsSequence(line)
     /\ jCompared[e].fn = IF ParsesAsMapping(line) THEN "compareAndColorizeMaps"
                          ELSE "compareAndColorizeSlices"
     /\ RecordArgument(line) = IF line[1] = "-" THEN jCompared[e].a ELSE jCompared[e].b}

RenderedLiterally(line) ==
  LiterallyRendered(IF line[1] = "-" THEN jExpect ELSE jActual, line)

\* C17: every record of the diff is rendered by exactly one of the two passes:
\* either one call of the structural colorizer renders it and the literal line
\* pass does not write it, or no call renders it and the literal line pass
\* writes it; no record is rendered twice and none is lost.
C17_EachRecordRenderedOnce ==
  jpc = "done" =>
    \A k \in 1..Len(DiffRecords) :
      \/ RenderedLiterally(DiffRecords[k]) /\ RenderedStructurally(DiffRecords[k]) = {}
      \/ ~RenderedLiterally(DiffRecords[k])
           /\ Cardinality(RenderedStructurally(DiffRecords[k])) = 1

-----------------------------------------------------------------------------
(* Claims on the colouring of the literal line pass *)

\* the index of the word of s that holds position p: the number of spaces
\* before p
WordIndexAt(s, p) == Cardinality({q \in 1..(p - 1) : s[q] = SP})

\* position p of s is a character of a word that differs from the word of
\* other at the same index
InDifferingWord(s, other, p) ==
  /\ s[p] # SP
  /\ WordAt(Split(s, SP), WordIndexAt(s, p)) # WordAt(Split(other, SP), WordIndexAt(s, p))

\* a record line with every character of its differing words coloured and
\* every other character plain; the words are those of the text after the sign
DifferingWordsColoured(line, other, colour) ==
  LET step(text, p) ==
        IF InDifferingWord(Tail(line), Tail(other), p)
          THEN text \o Sprint(colour, <<Tail(line)[p]>>)
          ELSE text \o <<Tail(line)[p]>>
  IN FoldLeft(step, <<line[1]>>, [p \in 1..(Len(line) - 1) |-> p]) \o <<NL>>

\* the pairs of records of a changed scalar: a Removed record immediately
\* followed by an Added record of the same key, neither value a mapping or a
\* sequence, both lines shorter than a display line
ChangedScalarPairs ==
  {k \in AdjacentPairs :
     /\ RecordKey(DiffRecords[k]) = RecordKey(DiffRecords[k + 1])
     /\ \A r \in {DiffRecords[k], DiffRecords[k + 1]} :
          ~ParsesAsMapping(r) /\ ~ParsesAsSequence(r) /\ Len(r) < MAX_LINE_LENGTH}

\* C22: for a changed top-level scalar written by the literal line pass, the
\* characters coloured on the expected line, and on the actual line, are
\* exactly the characters of the words that differ from the word at the same
\* index of the paired line: a differing word is coloured from its first to
\* its last character and no other character is coloured.
C22_DifferingWordsColouredInFull ==
  (jpc = "done" /\ jNoise = {}) =>
    \A k \in ChangedScalarPairs :
      /\ Contains(jExpect, DifferingWordsColoured(DiffRecords[k], DiffRecords[k + 1], ansiRed))
      /\ Contains(jActual, DifferingWordsColoured(DiffRecords[k + 1], DiffRecords[k], ansiGreen))

-----------------------------------------------------------------------------
(* Claims on the variables the pairing pass keeps between its iterations *)

\* the sequence a record holds, the empty one when its value is no sequence
RecordSequence(line) ==
  IF ParsesAsSequence(line) THEN Arr(UnmarshalSlice(RecordValue(line)).a) ELSE Arr(<<>>)

\* the call of the structural colorizer that the two lines of a pair decide by
\* themselves, the variables of the pass being as they are declared: the two
\* mappings, or else, the keys being equal, the two sequences
DecidedByPair(call, removed, added) ==
  IF ParsesAsMapping(removed) /\ ParsesAsMapping(added)
    THEN call = [fn |-> "compareAndColorizeMaps",
                 a |-> RecordArgument(removed), b |-> RecordArgument(added)]
    ELSE /\ RecordKey(removed) = RecordKey(added)
         /\ ParsesAsMapping(removed) \/ ParsesAsSequence(removed)
         /\ ParsesAsMapping(added) \/ ParsesAsSequence(added)
         /\ call = [fn |-> "compareAndColorizeSlices",
                    a |-> RecordSequence(removed), b |-> RecordSequence(added)]

\* C23: the classification and the rendering of a Removed/Added pair depend
\* on the two lines of the pair only: every call of the structural colorizer
\* is the call that the two lines of one pair decide, and no flag, map or
\* array left by an earlier pair selects a call or is an argument of one.
C23_PairDecidedByOwnLines ==
  jpc = "done" =>
    \A e \in 1..Len(jCompared) :
      \E k \in AdjacentPairs : DecidedByPair(jCompared[e], DiffRecords[k], DiffRecords[k + 1])

-----------------------------------------------------------------------------
(* Claims on the run-time faults of SprintJSONDiff *)

\* C24: for every pair of well-formed JSON object documents and every noise
\* map, nil included, SprintJSONDiff runs to completion and returns: no index
\* and no slice bound is out of range, also when a differing string value
\* holds line breaks, so that the diff text has an empty line or a line
\* shorter than the prefix of a record.
C24_NoFaultOnObjectDocuments ==
  (IsObject(jJson1) /\ IsObject(jJson2)) => jpc # "panic"

-----------------------------------------------------------------------------
(* Claims on the lookup of a key in the other document *)

\* the two documents hold the key with values of different rendered texts
DiffersIn(key) ==
  /\ key \in TopLevelKeys(jJson1) \cap TopLevelKeys(jJson2)
  /\ RenderedValue(jJson1, key) # RenderedValue(jJson2, key)

\* C27: the top-level keys are matched by exact name: a key of one document
\* is looked up in the other document as a literal key, never as a path or a
\* pattern.  A key of the first document has a Removed record exactly when
\* the second document has no such key or has another value for it, and a key
\* of the second document has an Added record exactly when the first document
\* has no such key or has another value for it; a key with a dot that both
\* documents hold with equal values has no record.
C27_KeysMatchedByExactName ==
  (jpc # "idle" /\ IsObject(jJson1) /\ IsObject(jJson2)) =>
    /\ \A key \in TopLevelKeys(jJson1) :
         RecordsOf("-", key) # {} <=> (key \notin TopLevelKeys(jJson2) \/ DiffersIn(key))
    /\ \A key \in TopLevelKeys(jJson2) :
         RecordsOf("+", key) # {} <=> (key \notin TopLevelKeys(jJson1) \/ DiffersIn(key))

-----------------------------------------------------------------------------
(* Claims on the key of a pair that is compared as mappings *)

\* the pairs of a Removed and an Added record whose values are both mappings
MappingPairs ==
  {k \in AdjacentPairs : ParsesAsMapping(DiffRecords[k]) /\ ParsesAsMapping(DiffRecords[k + 1])}

\* the first entry of a rendering of compareAndColorizeMaps is the entry of
\* the key: its name between one opening and one closing double quote
FirstEntryHasKey(output, key) ==
  Contains(StripAnsi(output), <<"{", NL, SP, SP, SP>> \o Quoted(key) \o <<":", SP>>)

\* C28: when a Removed/Added pair is compared as mappings, each rendering
\* holds the top-level key of its record as the name the key has in the
\* document, between exactly one opening and one closing double quote.
C28_MappingKeyWrittenAsNamed ==
  (jpc = "done" /\ IsObject(jJson1) /\ IsObject(jJson2)) =>
    \A k \in MappingPairs :
      /\ \A key \in TopLevelKeys(jJson1) :
           k \in RecordsOf("-", key) => FirstEntryHasKey(jExpect, key)
      /\ \A key \in TopLevelKeys(jJson2) :
           (k + 1) \in RecordsOf("+", key) => FirstEntryHasKey(jActual, key)

-----------------------------------------------------------------------------
(* Claims on documents that are equal as values *)

\* the two documents are objects that are equal as JSON values at every level
\* and differ as texts
EqualValuesOtherText ==
  /\ IsObject(jJson1)
  /\ IsObject(jJson2)
  /\ Decode(jJson1).v = Decode(jJson2).v
  /\ jJson1 # jJson2

-----------------------------------------------------------------------------
(* Claims on the noise set *)

\* the key of a record
KeyOfRecord(line) == Trim(RecordKey(line), {QUOTE})

\* the line is a line of the output, its first character included
EmittedAsIs(output, line) == Contains(<<NL>> \o StripAnsi(output), <<NL>> \o line \o <<NL>>)

\* C30: a diff line is treated as noised only when its key is a noise key.  A
\* record of a scalar whose key is not in the noise set is written with its
\* sign, as a line that is not noised, also when the name of a noise key
\* occurs elsewhere in the line, in its value or as a part of its key; and the
\* context line is written to both outputs whatever the noise set is.
C30_NoisedOnlyByKey ==
  (jpc = "done" /\ EveryLineIsRecord) =>
    /\ \A k \in 1..Len(DiffRecords) :
         (/\ KeyOfRecord(DiffRecords[k]) \notin jNoise
          /\ ~ParsesAsMapping(DiffRecords[k])
          /\ ~ParsesAsSequence(DiffRecords[k])) =>
           EmittedAsIs(IF DiffRecords[k][1] = "-" THEN jExpect ELSE jActual, DiffRecords[k])
    /\ jContext.exists =>
         EmittedAsIs(jExpect, jContext.text) /\ EmittedAsIs(jActual, jContext.text)

-----------------------------------------------------------------------------
(* A call of diffArrayRange, and breakSliceWithColor on its results *)

\* the longest value
MaxValueLen == 3

\* the values: the texts of the letters a and b and the space
DiffValues == UNION {[1..n -> {"a", "b", SP}] : n \in 0..MaxValueLen}

InitDiff ==
  /\ dpc = "idle"
  /\ dS1 = <<>>
  /\ dS2 = <<>>
  /\ dIndices1 = <<>>
  /\ dIndices2 = <<>>
  /\ dDiff = FALSE
  /\ dColoured1 = <<>>
  /\ dColoured2 = <<>>
  /\ dRanges = <<>>

DiffArrayRangeCall ==
  /\ dpc = "idle"
  /\ \E s1 \in DiffValues, s2 \in DiffValues :
       \E r \in {diffArrayRange(s1, s2)} :
         /\ dS1' = s1
         /\ dS2' = s2
         /\ dIndices1' = r.indices1
         /\ dIndices2' = r.indices2
         /\ dDiff' = r.diff
         /\ dColoured1' = breakSliceWithColor(s1, ansiRed, r.indices1)
         /\ dColoured2' = breakSliceWithColor(s2, ansiGreen, r.indices2)
         /\ dRanges' = diffIndexRange(s1, s2)
  /\ dpc' = "done"
  /\ UNCHANGED othersDiff

DiffArrayRangeReturn ==
  /\ dpc = "done"
  /\ dpc' = "idle"
  /\ dS1' = <<>>
  /\ dS2' = <<>>
  /\ dIndices1' = <<>>
  /\ dIndices2' = <<>>
  /\ dDiff' = FALSE
  /\ dColoured1' = <<>>
  /\ dColoured2' = <<>>
  /\ dRanges' = <<>>
  /\ UNCHANGED othersDiff

NextDiff == DiffArrayRangeCall \/ DiffArrayRangeReturn

-----------------------------------------------------------------------------
(* Claims on diffArrayRange *)

\* the set of the indices of a slice of indices
IndexSet(indices) == {indices[k] : k \in 1..Len(indices)}

\* the word positions of one side at which the other side has no word or has
\* a different word
DifferingPositions(words, otherWords) ==
  {i \in 0..(Len(words) - 1) : i >= Len(otherWords) \/ words[i + 1] # otherWords[i + 1]}

\* C20: the set of the indices diffArrayRange returns for each side is exactly
\* the set of the word positions of that side at which the other side has no
\* word or has a different word, the values being split on single spaces.
C20_IndicesAreDifferingPositions ==
  dpc = "done" =>
    /\ IndexSet(dIndices1) = DifferingPositions(Split(dS1, SP), Split(dS2, SP))
    /\ IndexSet(dIndices2) = DifferingPositions(Split(dS2, SP), Split(dS1, SP))

\* the empty expected value against an actual value of one word: word 0 is
\* recorded and coloured on the actual side
C20_Witness ==
  /\ dpc = "done"
  /\ dS1 = <<>>
  /\ dS2 = <<"a">>
  /\ dIndices2 = <<0>>
  /\ dColoured2 = Sprint(ansiGreen, <<"a">>) \o <<SP>>

-----------------------------------------------------------------------------
(* Claims on diffIndexRange *)

\* C21: every Range diffIndexRange returns, and so every Range the literal
\* line pass hands to breakWithColor, has Start < End, also for a word of one
\* character and for an index at which the first string has no word.
C21_RangesStartBeforeEnd ==
  dpc = "done" => \A k \in 1..Len(dRanges) : dRanges[k].Start < dRanges[k].End

Init == InitTrunc /\ InitWrap /\ InitHeader /\ InitCompare /\ InitJSON /\ InitAnsi /\ InitDiff

SpecTrunc == Init /\ [][NextTrunc]_vars

SpecWrap == Init /\ [][NextWrap]_vars

SpecHeader == Init /\ [][NextHeader]_vars

SpecCompare == Init /\ [][NextCompare]_vars

SpecJSON == Init /\ [][NextJSON]_vars

SpecAnsi == Init /\ [][NextAnsi]_vars

SpecDiff == Init /\ [][NextDiff]_vars

====
